---- MODULE Spec2Model ----
(***************************************************************************)
(* Tenant resolution middleware (middleware/tenant.js): subdomain          *)
(* extraction, validation, the TTL cache in front of the                   *)
(* get_tenant_by_subdomain remote call, the set_tenant_context remote call *)
(* and the resolveTenant orchestrator, under concurrent requests.          *)
(*                                                                         *)
(* JavaScript strings are modelled as sequences of one-character strings,  *)
(* so that split/indexOf/includes/toLowerCase are computed, not assumed.   *)
(* null/undefined is the value NULL, which is no JavaScript string.        *)
(***************************************************************************)
EXTENDS Integers, Sequences, FiniteSets, TLC

\* null/undefined in a string-valued slot
NULL == <<"NULL">>

\* null/undefined in an object-valued slot (headers, cache entry, tenant, error)
NONE == [null |-> TRUE]

\* ------------------------------------------------------------------------
\* String primitives used by the source
\* ------------------------------------------------------------------------

LowerChars == <<"a","b","c","d","e","f","g","h","i","j","k","l","m",
                "n","o","p","q","r","s","t","u","v","w","x","y","z">>

UpperChars == <<"A","B","C","D","E","F","G","H","I","J","K","L","M",
                "N","O","P","Q","R","S","T","U","V","W","X","Y","Z">>

DigitChars == <<"0","1","2","3","4","5","6","7","8","9">>

Range(s) == {s[i] : i \in DOMAIN s}

\* the character class [a-z0-9] under the /i flag
IsAlnum(c) == c \in Range(LowerChars) \cup Range(UpperChars) \cup Range(DigitChars)

ToLowerChar(c) ==
    IF c \in Range(UpperChars)
    THEN LowerChars[CHOOSE i \in DOMAIN UpperChars : UpperChars[i] = c]
    ELSE c

\* a variant that leaves the letter case as it is
toLowerCase_Identity(s) == s

\* String.prototype.toLowerCase
toLowerCase(s) == [i \in DOMAIN s |-> ToLowerChar(s[i])]

\* String.prototype.indexOf for a one-character needle: 0-based, -1 if absent
indexOf(s, c) ==
    IF \E i \in DOMAIN s : s[i] = c
    THEN (CHOOSE i \in DOMAIN s : s[i] = c /\ \A j \in 1..(i - 1) : s[j] # c) - 1
    ELSE -1

\* a substring that keeps the character at n
substring0_Inclusive(s, n) == SubSeq(s, 1, n + 1)

\* String.prototype.substring(0, n)
substring0(s, n) == SubSeq(s, 1, n)

\* String.prototype.includes
includes(s, needle) ==
    \E i \in 1..(Len(s) - Len(needle) + 1) :
        SubSeq(s, i, i + Len(needle) - 1) = needle

\* String.prototype.split for a one-character separator
RECURSIVE split(_, _)
split(s, c) ==
    LET k == indexOf(s, c) IN
    IF k = -1 THEN <<s>>
    ELSE <<SubSeq(s, 1, k)>> \o split(SubSeq(s, k + 2, Len(s)), c)

\* JavaScript truthiness of a string-or-null value
Truthy(v) == v # NULL /\ v # <<>>

\* b || a
OrElse_Second(a, b) == IF Truthy(b) THEN b ELSE a

\* a || b
OrElse(a, b) == IF Truthy(a) THEN a ELSE b

LOCALHOST == <<"l","o","c","a","l","h","o","s","t">>
LOOPBACK  == <<"1","2","7",".","0",".","0",".","1">>
DEMO      == <<"d","e","m","o">>

\* the exclusion list of extractSubdomain
ExcludedSubdomains ==
    { <<"w","w","w">>, <<"a","p","i">>, <<"a","d","m","i","n">>, <<"a","p","p">> }

\* the reserved list of isValidSubdomain
ReservedSubdomains ==
    { <<"w","w","w">>, <<"a","p","i">>, <<"a","d","m","i","n">>, <<"a","p","p">>,
      <<"m","a","i","l">>, <<"f","t","p">>, <<"b","l","o","g">>,
      <<"s","u","p","p","o","r","t">>, <<"h","e","l","p">>, <<"d","o","c","s">>,
      <<"s","t","a","t","u","s">>, <<"c","d","n">>, <<"a","s","s","e","t","s">> }

\* ------------------------------------------------------------------------
\* extractSubdomain(req).  A request is [headers, query]; headers is NONE or
\* [host, xfh], query is NONE or [tenant].  Reading a property of a missing
\* headers object throws a TypeError: Throws marks that outcome.
\* ------------------------------------------------------------------------

Throws == <<"THROWS">>

\* a variant content with 2 segments
extractSubdomain_TwoSegments(req) ==
    IF req.headers = NONE THEN Throws
    ELSE
    LET host == OrElse(req.headers.host, req.headers.xfh) IN
    IF ~Truthy(host) THEN NULL
    ELSE
    LET hostname == split(host, ":")[1]
        parts    == split(hostname, ".")
    IN  IF includes(hostname, LOCALHOST) \/ includes(hostname, LOOPBACK)
        THEN LET dashIndex == indexOf(hostname, "-") IN
             IF dashIndex > 0
             THEN substring0(hostname, dashIndex)
             ELSE OrElse(IF req.query = NONE THEN NULL ELSE req.query.tenant, DEMO)
        ELSE IF Len(parts) >= 2
             THEN LET subdomain == parts[1] IN
                  IF toLowerCase(subdomain) \in ExcludedSubdomains
                  THEN NULL
                  ELSE subdomain
             ELSE NULL

\* a variant requiring more than 3 segments
extractSubdomain_FourSegments(req) ==
    IF req.headers = NONE THEN Throws
    ELSE
    LET host == OrElse(req.headers.host, req.headers.xfh) IN
    IF ~Truthy(host) THEN NULL
    ELSE
    LET hostname == split(host, ":")[1]
        parts    == split(hostname, ".")
    IN  IF includes(hostname, LOCALHOST) \/ includes(hostname, LOOPBACK)
        THEN LET dashIndex == indexOf(hostname, "-") IN
             IF dashIndex > 0
             THEN substring0(hostname, dashIndex)
             ELSE OrElse(IF req.query = NONE THEN NULL ELSE req.query.tenant, DEMO)
        ELSE IF Len(parts) > 3
             THEN LET subdomain == parts[1] IN
                  IF toLowerCase(subdomain) \in ExcludedSubdomains
                  THEN NULL
                  ELSE subdomain
             ELSE NULL

extractSubdomain(req) ==
    IF req.headers = NONE THEN Throws
    ELSE
    LET host == OrElse(req.headers.host, req.headers.xfh) IN
    IF ~Truthy(host) THEN NULL
    ELSE
    LET hostname == split(host, ":")[1]
        parts    == split(hostname, ".")
    IN  IF includes(hostname, LOCALHOST) \/ includes(hostname, LOOPBACK)
        THEN LET dashIndex == indexOf(hostname, "-") IN
             IF dashIndex > 0
             THEN substring0(hostname, dashIndex)
             ELSE OrElse(IF req.query = NONE THEN NULL ELSE req.query.tenant, DEMO)
        ELSE IF Len(parts) >= 3
             THEN LET subdomain == parts[1] IN
                  IF toLowerCase(subdomain) \in ExcludedSubdomains
                  THEN NULL
                  ELSE subdomain
             ELSE NULL

\* ------------------------------------------------------------------------
\* isValidSubdomain(subdomain)
\* ------------------------------------------------------------------------

MinSubdomainLen == 2
MaxSubdomainLen == 50

\* a variant without the test of the two ends: /^[a-z0-9-]+$/i
subdomainRegex_AnyEnds(s) ==
    /\ Len(s) >= 1
    /\ \A i \in DOMAIN s : IsAlnum(s[i]) \/ s[i] = "-"

\* /^[a-z0-9]([a-z0-9-]*[a-z0-9])?$/i
subdomainRegex(s) ==
    /\ Len(s) >= 1
    /\ IsAlnum(s[1])
    /\ IsAlnum(s[Len(s)])
    /\ \A i \in DOMAIN s : IsAlnum(s[i]) \/ s[i] = "-"

isValidSubdomain(subdomain) ==
    IF ~Truthy(subdomain) THEN FALSE
    ELSE IF Len(subdomain) < MinSubdomainLen \/ Len(subdomain) > MaxSubdomainLen THEN FALSE
    ELSE IF ~subdomainRegex(subdomain) THEN FALSE
    ELSE IF toLowerCase(subdomain) \in ReservedSubdomains THEN FALSE
    ELSE TRUE

\* ------------------------------------------------------------------------
\* Tenant cache (a Map keyed by `tenant:${subdomain}`) and getTenantInfo
\* ------------------------------------------------------------------------

CACHE_TTL == 5 * 60 * 1000

CachePrefix == <<"t","e","n","a","n","t",":">>

\* a cache key folded to lower case
CacheKey_LowerCased(subdomain) == CachePrefix \o toLowerCase(subdomain)

CacheKey(subdomain) == CachePrefix \o subdomain

\* Map.prototype.get: undefined for a missing key
CacheGet(c, key) == IF key \in DOMAIN c THEN c[key] ELSE NONE

\* Map.prototype.set with the entry {data, timestamp: Date.now()}
CacheSet(c, key, data, t) ==
    [k \in (DOMAIN c) \cup {key} |->
        IF k = key THEN [data |-> data, timestamp |-> t] ELSE c[k]]

\* a delete that empties the Map
CacheDelete_Clears(c, key) == [k \in {} |-> NONE]

\* Map.prototype.delete
CacheDelete(c, key) == [k \in (DOMAIN c) \ {key} |-> c[k]]

\* Map.prototype.clear
CacheClear(c) == [k \in {} |-> NONE]

\* a freshness test with the comparison turned around
IsFresh_Inverted(cached, t) == cached # NONE /\ (t - cached.timestamp) > CACHE_TTL

\* a freshness test that still serves an entry of age CACHE_TTL
IsFresh_Inclusive(cached, t) == cached # NONE /\ (t - cached.timestamp) <= CACHE_TTL

\* cached && (Date.now() - cached.timestamp) < CACHE_TTL
IsFresh(cached, t) == cached # NONE /\ (t - cached.timestamp) < CACHE_TTL

\* tenant.tenant_settings || {}
EmptySettings == [k \in {} |-> NONE]

\* the tenantInfo object built from the first returned row
TenantInfo(subdomain, row) ==
    [ id        |-> row.tenant_id,
      subdomain |-> subdomain,
      name      |-> row.tenant_name,
      status    |-> row.tenant_status,
      settings  |-> IF row.tenant_settings = NONE THEN EmptySettings
                    ELSE row.tenant_settings ]

\* getTenantInfo without the tenant_status test
LookupBranch_NoStatusCheck(resp) ==
    IF resp.thrown THEN "exception"
    ELSE IF resp.error # NONE THEN "error"
    ELSE IF resp.data = NONE \/ Len(resp.data.rows) = 0 THEN "empty"
    ELSE "active"

\* Which branch of getTenantInfo a response of the rpc takes.  A response is
\* [thrown, error, data]: thrown when the awaited call rejects, otherwise the
\* {data, error} pair the client resolves with; data is NONE (null) or
\* [rows |-> the returned array].
LookupBranch(resp) ==
    IF resp.thrown THEN "exception"
    ELSE IF resp.error # NONE THEN "error"
    ELSE IF resp.data = NONE \/ Len(resp.data.rows) = 0 THEN "empty"
    ELSE IF resp.data.rows[1].tenant_status # "active" THEN "inactive"
    ELSE "active"

\* the value getTenantInfo returns once the rpc has answered
TenantInfoReturn(subdomain, resp) ==
    IF LookupBranch(resp) = "active"
    THEN TenantInfo(subdomain, resp.data.rows[1])
    ELSE NONE

\* getTenantInfo caching a negative result when the rpc failed
CacheAfterLookup_CachesFailure(c, subdomain, resp, t) ==
    CASE LookupBranch(resp) \in {"empty", "error", "exception"} ->
            CacheSet(c, CacheKey(subdomain), NONE, t)
      [] LookupBranch(resp) = "active" ->
            CacheSet(c, CacheKey(subdomain), TenantInfo(subdomain, resp.data.rows[1]), t)
      [] OTHER -> c

\* getTenantInfo without the negative cache entry
CacheAfterLookup_NoNegative(c, subdomain, resp, t) ==
    CASE LookupBranch(resp) = "active" ->
            CacheSet(c, CacheKey(subdomain), TenantInfo(subdomain, resp.data.rows[1]), t)
      [] OTHER -> c

\* getTenantInfo storing the record of a tenant that is not active
CacheAfterLookup_CachesInactive(c, subdomain, resp, t) ==
    CASE LookupBranch(resp) = "empty"  -> CacheSet(c, CacheKey(subdomain), NONE, t)
      [] LookupBranch(resp) \in {"active", "inactive"} ->
            CacheSet(c, CacheKey(subdomain), TenantInfo(subdomain, resp.data.rows[1]), t)
      [] OTHER -> c

\* getTenantInfo dropping the entry of a lookup that yields no tenant record
CacheAfterLookup_EvictsOnFailure(c, subdomain, resp, t) ==
    CASE LookupBranch(resp) = "empty"  -> CacheSet(c, CacheKey(subdomain), NONE, t)
      [] LookupBranch(resp) = "active" ->
            CacheSet(c, CacheKey(subdomain), TenantInfo(subdomain, resp.data.rows[1]), t)
      [] OTHER -> CacheDelete(c, CacheKey(subdomain))

\* the cache getTenantInfo leaves behind once the rpc has answered at time t
CacheAfterLookup(c, subdomain, resp, t) ==
    CASE LookupBranch(resp) = "empty"  -> CacheSet(c, CacheKey(subdomain), NONE, t)
      [] LookupBranch(resp) = "active" ->
            CacheSet(c, CacheKey(subdomain), TenantInfo(subdomain, resp.data.rows[1]), t)
      [] OTHER -> c

\* setTenantContext without the `if (error) throw`
SetTenantContextThrows_IgnoresError(out) == out = "throw"

\* setTenantContext(tenantId) throws when the rpc rejects or resolves with an
\* error; out is the outcome of the rpc: "ok", "error" or "throw"
SetTenantContextThrows(out) == out # "ok"

\* ------------------------------------------------------------------------
\* The structured errors of resolveTenant
\* ------------------------------------------------------------------------

InvalidSubdomainError ==
    [ code    |-> "INVALID_SUBDOMAIN",
      message |-> "No valid subdomain found in request",
      details |-> [text |-> "Please access the application using a valid tenant subdomain (e.g., acme.yourapp.com)",
                   arg  |-> NULL] ]

InvalidFormatError ==
    [ code    |-> "INVALID_SUBDOMAIN_FORMAT",
      message |-> "Invalid subdomain format",
      details |-> [text |-> "Subdomain must be 2-50 characters, alphanumeric with hyphens allowed",
                   arg  |-> NULL] ]

TenantNotFoundError(subdomain) ==
    [ code    |-> "TENANT_NOT_FOUND",
      message |-> "Tenant not found or inactive",
      details |-> [text |-> "No active tenant found for subdomain: ", arg |-> subdomain] ]

TenantResolutionError ==
    [ code    |-> "TENANT_RESOLUTION_ERROR",
      message |-> "Error resolving tenant",
      details |-> [text |-> "An internal error occurred while resolving tenant information",
                   arg  |-> NULL] ]

\* ------------------------------------------------------------------------
\* Environment: requests, the backing store, the next callback, the clock
\* ------------------------------------------------------------------------

ACME_HOST  == <<"a","c","m","e",".","e","x",".","i","o">>
GO_HOST    == <<"g","o",".","e","x",".","i","o",":","8","0">>
WWW_HOST   == <<"w","w","w",".","e","x",".","i","o">>
SHORT_HOST == <<"a",".","e","x",".","i","o">>

ACME == <<"a","c","m","e">>
GO   == <<"g","o">>

\* the requests that arrive
Requests ==
    { [headers |-> [host |-> ACME_HOST,  xfh |-> NULL],     query |-> NONE],
      [headers |-> [host |-> NULL,       xfh |-> GO_HOST],  query |-> NONE],
      [headers |-> [host |-> WWW_HOST,   xfh |-> NULL],     query |-> NONE],
      [headers |-> [host |-> SHORT_HOST, xfh |-> NULL],     query |-> NONE],
      [headers |-> NONE,                                    query |-> NONE] }

\* the identifiers the administrative surface is called with
Subdomains == {ACME, GO}

\* the id the store keeps for a subdomain
StoreId(subdomain) == IF subdomain = ACME THEN <<"t","1">> ELSE <<"t","2">>

\* the rows the store may hold for a subdomain at the time of a lookup
StoreRows(subdomain) ==
    { [tenant_id |-> StoreId(subdomain), tenant_name |-> "Tenant",
       tenant_status |-> "active", tenant_settings |-> NONE],
      [tenant_id |-> StoreId(subdomain), tenant_name |-> "Tenant",
       tenant_status |-> "active", tenant_settings |-> [theme |-> "dark"]],
      [tenant_id |-> StoreId(subdomain), tenant_name |-> "Tenant",
       tenant_status |-> "suspended", tenant_settings |-> NONE] }

DbError == [message |-> "connection refused"]

\* every way the get_tenant_by_subdomain rpc can answer
LookupResponses(subdomain) ==
    { [thrown |-> TRUE,  error |-> NONE,    data |-> NONE],
      [thrown |-> FALSE, error |-> DbError, data |-> NONE],
      [thrown |-> FALSE, error |-> NONE,    data |-> NONE],
      [thrown |-> FALSE, error |-> NONE,    data |-> [rows |-> <<>>]] }
    \cup { [thrown |-> FALSE, error |-> NONE, data |-> [rows |-> <<row>>]] :
             row \in StoreRows(subdomain) }

\* every way the set_tenant_context rpc can answer
ContextOutcomes == {"ok", "error", "throw"}

\* every way a call of the next callback can end: it returns, it throws, or
\* it returns a promise that rejects
NextOutcomes == {"ok", "throw", "reject"}

\* the clock advances in these steps (milliseconds): an entry written before
\* the step is then one short of TTL, exactly TTL, or one past TTL old
ClockSteps == {CACHE_TTL - 1, CACHE_TTL, CACHE_TTL + 1}

\* the clock stops here
MaxNow == 300001

Req == {"r1", "r2"}

VARIABLES
    tenantCache,   \* the Map: cache key -> [data, timestamp]
    now,           \* Date.now()
    inv,           \* per request slot: the resolveTenant invocation running in it
    dbContext,     \* the store: tenant_uuid of the latest successful set_tenant_context
    api,           \* per request slot: the phrases handler running in it
    overtaken,     \* history: slots whose lookup was in flight when its key was cleared
    tainted,       \* history: cache keys whose entry such a lookup wrote
    call,          \* a call of one of the pure functions: its argument and result
    ui             \* the page of the frontend: its buttons, panels and pending requests

vars == <<tenantCache, now, inv, dbContext, api, overtaken, tainted, call, ui>>

\* what the resolver, the cache and the clock do not touch
handlerVars == <<dbContext, api>>
historyVars == <<overtaken, tainted>>

\* ------------------------------------------------------------------------
\* resolveTenant(req, res, next)
\*
\* An invocation runs without interruption between two awaits (one event
\* loop, no preemption), so each action below is one such stretch: from the
\* call to the first rpc, from the answer of get_tenant_by_subdomain to the
\* set_tenant_context rpc, and from its answer to the return.
\* ------------------------------------------------------------------------

Idle ==
    [ pc             |-> "idle",
      req            |-> NONE,     \* the request object
      useNext        |-> FALSE,    \* a next callback was passed
      subdomain      |-> NULL,     \* const subdomain
      cacheUse       |-> "none",   \* the cache test: "fresh", "stale" or "miss"
      tenant         |-> NONE,     \* const tenant
      ret            |-> NONE,     \* the value returned without next
      escaped        |-> FALSE,    \* the returned promise rejected
      reqTenant      |-> NONE,     \* req.tenant
      reqTenantError |-> NONE,     \* req.tenantError
      nextCalls      |-> 0,        \* calls of next
      lookupCalls    |-> 0,        \* get_tenant_by_subdomain rpcs issued
      contextCalls   |-> 0,        \* set_tenant_context rpcs issued
      contextArg     |-> NULL,     \* tenant_uuid of the set_tenant_context rpc
      lookupResp     |-> NONE,     \* the answer of the lookup rpc
      contextOut     |-> "none",   \* the outcome of the set_tenant_context rpc
      threw          |-> FALSE,    \* extractSubdomain threw
      nextThrew      |-> FALSE ]   \* a call of next threw or rejected

\* a catch block that hands back the tenant it had resolved
CatchReturn_KeepsTenant(st, n) ==
    IF st.useNext
    THEN [st EXCEPT !.pc = "done",
                    !.reqTenantError = TenantResolutionError,
                    !.nextCalls = @ + 1,
                    !.escaped = (n # "ok"),
                    !.nextThrew = @ \/ (n # "ok")]
    ELSE [st EXCEPT !.pc = "done",
                    !.ret = [error |-> TenantResolutionError, tenant |-> st.tenant]]

\* the catch block of resolveTenant; n is the outcome of its call of next
CatchReturn(st, n) ==
    IF st.useNext
    THEN [st EXCEPT !.pc = "done",
                    !.reqTenantError = TenantResolutionError,
                    !.nextCalls = @ + 1,
                    !.escaped = (n # "ok"),
                    !.nextThrew = @ \/ (n # "ok")]
    ELSE [st EXCEPT !.pc = "done",
                    !.ret = [error |-> TenantResolutionError, tenant |-> NONE]]

\* one of the three error returns inside the try block
ErrorReturn(st, error, n1, n2) ==
    IF st.useNext
    THEN LET st1 == [st EXCEPT !.reqTenantError = error, !.nextCalls = @ + 1] IN
         CASE n1 = "ok"     -> [st1 EXCEPT !.pc = "done"]
           [] n1 = "reject" -> [st1 EXCEPT !.pc = "done", !.escaped = TRUE,
                                           !.nextThrew = TRUE]
           [] n1 = "throw"  -> CatchReturn([st1 EXCEPT !.nextThrew = TRUE], n2)
    ELSE [st EXCEPT !.pc = "done", !.ret = [error |-> error, tenant |-> NONE]]

\* the success return inside the try block
SuccessReturn(st, tenant, n1, n2) ==
    IF st.useNext
    THEN LET st1 == [st EXCEPT !.reqTenant = tenant, !.reqTenantError = NONE,
                               !.nextCalls = @ + 1] IN
         CASE n1 = "ok"     -> [st1 EXCEPT !.pc = "done"]
           [] n1 = "reject" -> [st1 EXCEPT !.pc = "done", !.escaped = TRUE,
                                           !.nextThrew = TRUE]
           [] n1 = "throw"  -> CatchReturn([st1 EXCEPT !.nextThrew = TRUE], n2)
    ELSE [st EXCEPT !.pc = "done", !.ret = [error |-> NONE, tenant |-> tenant]]

\* await setTenantContext(tenant.id): the rpc is issued
CallSetTenantContext(st, tenant) ==
    [st EXCEPT !.pc = "setctx", !.tenant = tenant,
               !.contextCalls = @ + 1, !.contextArg = tenant.id]

\* a variant that looks the candidate up without validating it
ResolveStart_NoValidation(st, c, t, n1, n2) ==
    LET subdomain == extractSubdomain(st.req) IN
    IF subdomain = Throws
    THEN CatchReturn([st EXCEPT !.threw = TRUE], n1)
    ELSE IF ~Truthy(subdomain)
    THEN ErrorReturn([st EXCEPT !.subdomain = subdomain], InvalidSubdomainError, n1, n2)
    ELSE
    LET cached == CacheGet(c, CacheKey(subdomain))
        st1    == [st EXCEPT !.subdomain = subdomain,
                             !.cacheUse = IF IsFresh(cached, t) THEN "fresh"
                                          ELSE IF cached # NONE THEN "stale"
                                          ELSE "miss"]
    IN  IF IsFresh(cached, t)
        THEN IF cached.data = NONE
             THEN ErrorReturn(st1, TenantNotFoundError(subdomain), n1, n2)
             ELSE CallSetTenantContext(st1, cached.data)
        ELSE [st1 EXCEPT !.pc = "lookup", !.lookupCalls = @ + 1]

\* a variant that takes the context of a cached tenant as already set
ResolveStart_TrustsCachedContext(st, c, t, n1, n2) ==
    LET subdomain == extractSubdomain(st.req) IN
    IF subdomain = Throws
    THEN CatchReturn([st EXCEPT !.threw = TRUE], n1)
    ELSE IF ~Truthy(subdomain)
    THEN ErrorReturn([st EXCEPT !.subdomain = subdomain], InvalidSubdomainError, n1, n2)
    ELSE IF ~isValidSubdomain(subdomain)
    THEN ErrorReturn([st EXCEPT !.subdomain = subdomain], InvalidFormatError, n1, n2)
    ELSE
    LET cached == CacheGet(c, CacheKey(subdomain))
        st1    == [st EXCEPT !.subdomain = subdomain,
                             !.cacheUse = IF IsFresh(cached, t) THEN "fresh"
                                          ELSE IF cached # NONE THEN "stale"
                                          ELSE "miss"]
    IN  IF IsFresh(cached, t)
        THEN IF cached.data = NONE
             THEN ErrorReturn(st1, TenantNotFoundError(subdomain), n1, n2)
             ELSE SuccessReturn([st1 EXCEPT !.tenant = cached.data, !.contextOut = "ok"],
                                cached.data, n1, n2)
        ELSE [st1 EXCEPT !.pc = "lookup", !.lookupCalls = @ + 1]

\* resolveTenant from its call up to the first await, or to its return
ResolveStart(st, c, t, n1, n2) ==
    LET subdomain == extractSubdomain(st.req) IN
    IF subdomain = Throws
    THEN CatchReturn([st EXCEPT !.threw = TRUE], n1)
    ELSE IF ~Truthy(subdomain)
    THEN ErrorReturn([st EXCEPT !.subdomain = subdomain], InvalidSubdomainError, n1, n2)
    ELSE IF ~isValidSubdomain(subdomain)
    THEN ErrorReturn([st EXCEPT !.subdomain = subdomain], InvalidFormatError, n1, n2)
    ELSE
    LET cached == CacheGet(c, CacheKey(subdomain))
        st1    == [st EXCEPT !.subdomain = subdomain,
                             !.cacheUse = IF IsFresh(cached, t) THEN "fresh"
                                          ELSE IF cached # NONE THEN "stale"
                                          ELSE "miss"]
    IN  IF IsFresh(cached, t)
        THEN IF cached.data = NONE
             THEN ErrorReturn(st1, TenantNotFoundError(subdomain), n1, n2)
             ELSE CallSetTenantContext(st1, cached.data)
        ELSE [st1 EXCEPT !.pc = "lookup", !.lookupCalls = @ + 1]

\* a variant that tells the caller when the tenant exists but is not active
ResolveAfterLookup_TellsInactive(st, resp, n1, n2) ==
    LET tenant == TenantInfoReturn(st.subdomain, resp)
        st1    == [st EXCEPT !.lookupResp = resp]
    IN  IF tenant = NONE
        THEN ErrorReturn(st1,
                 IF LookupBranch(resp) = "inactive"
                 THEN [TenantNotFoundError(st.subdomain) EXCEPT !.message = "Tenant inactive"]
                 ELSE TenantNotFoundError(st.subdomain),
                 n1, n2)
        ELSE CallSetTenantContext(st1, tenant)

\* resolveTenant from the answer of get_tenant_by_subdomain on
ResolveAfterLookup(st, resp, n1, n2) ==
    LET tenant == TenantInfoReturn(st.subdomain, resp)
        st1    == [st EXCEPT !.lookupResp = resp]
    IN  IF tenant = NONE
        THEN ErrorReturn(st1, TenantNotFoundError(st.subdomain), n1, n2)
        ELSE CallSetTenantContext(st1, tenant)

\* a variant that awaits set_tenant_context again for as long as it fails
ResolveAfterContext_WaitsAgain(st, out, n1, n2) ==
    LET st1 == [st EXCEPT !.contextOut = out] IN
    IF SetTenantContextThrows(out)
    THEN st1
    ELSE SuccessReturn(st1, st.tenant, n1, n2)

\* a variant that issues set_tenant_context a second time when the first fails
ResolveAfterContext_RetriesOnce(st, out, n1, n2) ==
    LET st1 == [st EXCEPT !.contextOut = out] IN
    IF SetTenantContextThrows(out)
    THEN IF st.contextCalls < 2
         THEN CallSetTenantContext(st1, st.tenant)
         ELSE CatchReturn(st1, n1)
    ELSE SuccessReturn(st1, st.tenant, n1, n2)

\* resolveTenant from the answer of set_tenant_context on
ResolveAfterContext(st, out, n1, n2) ==
    LET st1 == [st EXCEPT !.contextOut = out] IN
    IF SetTenantContextThrows(out)
    THEN CatchReturn(st1, n1)
    ELSE SuccessReturn(st1, st.tenant, n1, n2)

\* ------------------------------------------------------------------------
\* Actions
\* ------------------------------------------------------------------------

\* the phrases handler of a slot before a request has arrived
ApiIdle ==
    [ pc       |-> "idle",
      method   |-> "none",    \* req.method
      status   |-> 0,         \* the status of the response sent (0: none yet)
      queryCtx |-> NULL ]     \* the store's tenant context when the query ran

\* the page once initializeApp has run: the first fetchTenantPhrases awaits
\* its answer behind the loading panel, with the three buttons disabled
UiLoaded ==
    [ fetchDisabled   |-> TRUE,       \* elements.fetchButton.disabled
      refreshDisabled |-> TRUE,       \* elements.refreshButton.disabled
      testDisabled    |-> TRUE,       \* elements.testButton.disabled
      panel           |-> "loading",  \* the panel that is not hidden
      status          |-> "loading",  \* the class of the status dot
      currentTenant   |-> FALSE,      \* config.currentTenant is set
      inFlight        |-> <<"fetch">> ] \* the requests awaiting makeApiRequest

\* no pure function is being called
NoCall == [fn |-> "none", arg |-> NONE, about |-> NONE, result |-> NONE, returned |-> FALSE]

Init ==
    /\ tenantCache = [k \in {} |-> NONE]
    /\ now = 0
    /\ inv = [r \in Req |-> Idle]
    /\ dbContext = NULL
    /\ api = [r \in Req |-> ApiIdle]
    /\ overtaken = {}
    /\ tainted = {}
    /\ ui = UiLoaded
    /\ call = NoCall

\* the outcomes of the calls of next an invocation may make
NextOutcomesOf(st) == IF st.useNext THEN NextOutcomes ELSE {"ok"}

\* a request arrives and resolveTenant(req, res) is called for it
Begin(r) ==
    /\ inv[r].pc = "idle"
    /\ \E rq \in Requests :
         inv' = [inv EXCEPT ![r] =
                    ResolveStart([Idle EXCEPT !.req = rq], tenantCache, now, "ok", "ok")]
    /\ UNCHANGED <<tenantCache, now>>

\* req.tenant as the request object carries it into the middleware: unset, or
\* the record an earlier middleware or an earlier pass left on it
CarriedTenants == {NONE, TenantInfo(GO, CHOOSE row \in StoreRows(GO) : row.tenant_settings # NONE)}

\* a request arrives and resolveTenant(req, res, next) is called for it
BeginMiddleware(r) ==
    /\ inv[r].pc = "idle"
    /\ \E rq \in Requests, carried \in CarriedTenants, n1, n2 \in NextOutcomes :
         inv' = [inv EXCEPT ![r] =
                    ResolveStart([Idle EXCEPT !.req = rq, !.useNext = TRUE,
                                              !.reqTenant = carried],
                                 tenantCache, now, n1, n2)]
    /\ UNCHANGED <<tenantCache, now>>

\* the caller has consumed the result; the slot takes the next request
Return(r) ==
    /\ inv[r].pc = "done"
    /\ inv' = [inv EXCEPT ![r] = Idle]
    /\ UNCHANGED <<tenantCache, now>>

\* the get_tenant_by_subdomain rpc answers
LookupAnswer(r) ==
    /\ inv[r].pc = "lookup"
    /\ \E resp \in LookupResponses(inv[r].subdomain), n1, n2 \in NextOutcomesOf(inv[r]) :
         /\ tenantCache' = CacheAfterLookup(tenantCache, inv[r].subdomain, resp, now)
         /\ inv' = [inv EXCEPT ![r] = ResolveAfterLookup(inv[r], resp, n1, n2)]
    /\ UNCHANGED now

\* the set_tenant_context rpc answers
ContextAnswer(r) ==
    /\ inv[r].pc = "setctx"
    /\ \E out \in ContextOutcomes, n1, n2 \in NextOutcomesOf(inv[r]) :
         inv' = [inv EXCEPT ![r] = ResolveAfterContext(inv[r], out, n1, n2)]
    /\ UNCHANGED <<tenantCache, now>>

clearTenantCache(subdomain) ==
    /\ tenantCache' = CacheDelete(tenantCache, CacheKey(subdomain))
    /\ UNCHANGED <<now, inv>>

clearAllTenantCache ==
    /\ tenantCache' = CacheClear(tenantCache)
    /\ UNCHANGED <<now, inv>>

\* time passes
Tick ==
    /\ \E d \in ClockSteps :
         /\ now + d <= MaxNow
         /\ now' = now + d
    /\ UNCHANGED <<tenantCache, inv>>

Next ==
    \/ (\E r \in Req : Begin(r))                /\ UNCHANGED <<handlerVars, historyVars, call, ui>>
    \/ (\E r \in Req : LookupAnswer(r))         /\ UNCHANGED <<handlerVars, historyVars, call, ui>>
    \/ (\E r \in Req : ContextAnswer(r))        /\ UNCHANGED <<handlerVars, historyVars, call, ui>>
    \/ (\E r \in Req : Return(r))               /\ UNCHANGED <<handlerVars, historyVars, call, ui>>
    \/ (\E s \in Subdomains : clearTenantCache(s)) /\ UNCHANGED <<handlerVars, historyVars, call, ui>>
    \/ clearAllTenantCache                      /\ UNCHANGED <<handlerVars, historyVars, call, ui>>
    \/ Tick                                     /\ UNCHANGED <<handlerVars, historyVars, call, ui>>

Spec == Init /\ [][Next]_vars

TypeOK ==
    /\ now \in 0..MaxNow
    /\ \A r \in Req : inv[r].pc \in {"idle", "lookup", "setctx", "done"}

\* every rpc an invocation awaits is eventually answered
AnswersArrive ==
    \A r \in Req :
        /\ WF_vars(LookupAnswer(r) /\ UNCHANGED <<handlerVars, historyVars, call, ui>>)
        /\ WF_vars(ContextAnswer(r) /\ UNCHANGED <<handlerVars, historyVars, call, ui>>)

\* the resolver and the invalidations at one instant of the clock
NextLive ==
    \/ (\E r \in Req : Begin(r))                /\ UNCHANGED <<handlerVars, historyVars, call, ui>>
    \/ (\E r \in Req : LookupAnswer(r))         /\ UNCHANGED <<handlerVars, historyVars, call, ui>>
    \/ (\E r \in Req : ContextAnswer(r))        /\ UNCHANGED <<handlerVars, historyVars, call, ui>>
    \/ (\E r \in Req : Return(r))               /\ UNCHANGED <<handlerVars, historyVars, call, ui>>
    \/ (\E s \in Subdomains : clearTenantCache(s)) /\ UNCHANGED <<handlerVars, historyVars, call, ui>>
    \/ clearAllTenantCache                      /\ UNCHANGED <<handlerVars, historyVars, call, ui>>

FairSpec == Init /\ [][NextLive]_vars /\ AnswersArrive

\* ------------------------------------------------------------------------
\* The phrases handler over the resolver and the store's tenant context
\* ------------------------------------------------------------------------

\* the HTTP methods of the requests the handler receives
Methods == {"GET", "POST", "OPTIONS"}

\* every way the phrases query can end
QueryOutcomes == {"rows", "empty", "error", "throw"}

\* the store's tenant context after a set_tenant_context rpc for tenantId ended out
StoreContextAfter(ctx, tenantId, out) == IF out = "ok" THEN tenantId ELSE ctx

hasValidTenantContext(req) ==
    /\ req.tenant # NONE
    /\ Truthy(req.tenant.id)
    /\ req.tenantError = NONE

\* a status map without the TENANT_NOT_FOUND row
handleTenantError_NotFoundUnmapped(tenantError) ==
    IF tenantError = NONE THEN 400
    ELSE CASE tenantError.code = "INVALID_SUBDOMAIN"        -> 400
           [] tenantError.code = "INVALID_SUBDOMAIN_FORMAT" -> 400
           [] tenantError.code = "TENANT_RESOLUTION_ERROR"  -> 500
           [] OTHER                                         -> 400

\* the status handleTenantError responds with
handleTenantError(tenantError) ==
    IF tenantError = NONE THEN 400
    ELSE CASE tenantError.code = "INVALID_SUBDOMAIN"        -> 400
           [] tenantError.code = "INVALID_SUBDOMAIN_FORMAT" -> 400
           [] tenantError.code = "TENANT_NOT_FOUND"         -> 404
           [] tenantError.code = "TENANT_RESOLUTION_ERROR"  -> 500
           [] OTHER                                         -> 400

\* the status handleGetPhrases responds with once the query has ended
QueryStatus(out) == IF out \in {"rows", "empty"} THEN 200 ELSE 500

\* a handler that routes on the method before it looks at the resolution
HandlerAfterResolve_RoutesFirst(a, st) ==
    LET tenantError == st.ret.error
        tenant      == st.ret.tenant
    IN  IF a.method = "GET"
        THEN [a EXCEPT !.pc = "query"]
        ELSE IF tenantError # NONE \/ tenant = NONE
        THEN [a EXCEPT !.pc = "responded", !.status = handleTenantError(tenantError)]
        ELSE [a EXCEPT !.pc = "responded", !.status = 405]

\* the handler from the return of resolveTenant up to its next await,
\* or to its response
HandlerAfterResolve(a, st) ==
    LET tenantError == st.ret.error
        tenant      == st.ret.tenant
    IN  IF tenantError # NONE \/ tenant = NONE
        THEN [a EXCEPT !.pc = "responded", !.status = handleTenantError(tenantError)]
        ELSE IF ~hasValidTenantContext([tenant |-> tenant, tenantError |-> tenantError])
        THEN [a EXCEPT !.pc = "responded", !.status = 400]
        ELSE IF a.method = "GET"
        THEN [a EXCEPT !.pc = "query"]
        ELSE [a EXCEPT !.pc = "responded", !.status = 405]

\* the handler resumes in the step in which its resolveTenant call returns
HandlerResume(a, st) ==
    IF a.pc = "resolving" /\ st.pc = "done" THEN HandlerAfterResolve(a, st) ELSE a

\* a request arrives at the endpoint
handler(r) ==
    /\ api[r].pc = "idle"
    /\ inv[r].pc = "idle"
    /\ \E m \in Methods, rq \in Requests :
         IF m = "OPTIONS"
         THEN /\ api' = [api EXCEPT ![r] = [ApiIdle EXCEPT !.pc = "responded",
                                                          !.method = m, !.status = 200]]
              /\ inv' = inv
         ELSE /\ inv' = [inv EXCEPT ![r] =
                    ResolveStart([Idle EXCEPT !.req = rq], tenantCache, now, "ok", "ok")]
              /\ api' = [api EXCEPT ![r] =
                    HandlerResume([ApiIdle EXCEPT !.pc = "resolving", !.method = m],
                                  inv'[r])]
    /\ UNCHANGED <<tenantCache, now, dbContext>>

\* an active row whose tenant_id column is null
IdlessRow ==
    [tenant_id |-> NULL, tenant_name |-> "Tenant",
     tenant_status |-> "active", tenant_settings |-> NONE]

\* every way the lookup rpc of a request of the handler can answer
HandlerLookupResponses(subdomain) ==
    LookupResponses(subdomain)
        \cup { [thrown |-> FALSE, error |-> NONE, data |-> [rows |-> <<IdlessRow>>]] }

\* the lookup rpc of a request of the handler answers
HandlerLookupAnswer(r) ==
    /\ inv[r].pc = "lookup"
    /\ \E resp \in HandlerLookupResponses(inv[r].subdomain) :
         /\ tenantCache' = CacheAfterLookup(tenantCache, inv[r].subdomain, resp, now)
         /\ inv' = [inv EXCEPT ![r] = ResolveAfterLookup(inv[r], resp, "ok", "ok")]
    /\ api' = [api EXCEPT ![r] = HandlerResume(api[r], inv'[r])]
    /\ UNCHANGED <<now, dbContext>>

\* the store runs set_tenant_context for a request of the handler and answers
HandlerContextAnswer(r) ==
    /\ ContextAnswer(r)
    /\ dbContext' = StoreContextAfter(dbContext, inv[r].contextArg, inv'[r].contextOut)
    /\ api' = [api EXCEPT ![r] = HandlerResume(api[r], inv'[r])]

\* the store runs the phrases query of a request and answers
QueryAnswer(r) ==
    /\ api[r].pc = "query"
    /\ \E out \in QueryOutcomes :
         api' = [api EXCEPT ![r] =
                    [@ EXCEPT !.pc = "responded", !.status = QueryStatus(out),
                              !.queryCtx = IF out = "throw" THEN NULL ELSE dbContext]]
    /\ UNCHANGED <<tenantCache, now, inv, dbContext>>

\* the response has been sent; the slot takes the next request
Respond(r) ==
    /\ api[r].pc = "responded"
    /\ api' = [api EXCEPT ![r] = ApiIdle]
    /\ inv' = [inv EXCEPT ![r] = Idle]
    /\ UNCHANGED <<tenantCache, now, dbContext>>

NextApi ==
    \/ (\E r \in Req : handler(r))              /\ UNCHANGED <<historyVars, call, ui>>
    \/ (\E r \in Req : HandlerLookupAnswer(r))  /\ UNCHANGED <<historyVars, call, ui>>
    \/ (\E r \in Req : HandlerContextAnswer(r)) /\ UNCHANGED <<historyVars, call, ui>>
    \/ (\E r \in Req : QueryAnswer(r))          /\ UNCHANGED <<historyVars, call, ui>>
    \/ (\E r \in Req : Respond(r))              /\ UNCHANGED <<historyVars, call, ui>>
    \/ clearAllTenantCache                      /\ UNCHANGED <<handlerVars, historyVars, call, ui>>

SpecApi == Init /\ [][NextApi]_vars

\* ------------------------------------------------------------------------
\* Calls of extractSubdomain, isValidSubdomain and resolveTenant on hostnames
\* and identifiers built from parts; what each part is, is written next to it
\* ------------------------------------------------------------------------

\* first segments: the text, whether it is one of www, api, admin, app in
\* some letter case
FirstSegments ==
    { [text |-> <<"a","c","m","e">>,         excluded |-> FALSE],
      [text |-> <<"A","c","m","e">>,         excluded |-> FALSE],
      [text |-> <<"g","o">>,                 excluded |-> FALSE],
      [text |-> <<"m","y","-","c","o">>,     excluded |-> FALSE],
      [text |-> <<"w","w","w","w">>,         excluded |-> FALSE],
      [text |-> <<"a","p">>,                 excluded |-> FALSE],
      [text |-> <<"m","a","i","l">>,         excluded |-> FALSE],
      [text |-> <<"w","w","w">>,             excluded |-> TRUE],
      [text |-> <<"W","W","W">>,             excluded |-> TRUE],
      [text |-> <<"A","p","i">>,             excluded |-> TRUE],
      [text |-> <<"a","d","m","i","n">>,     excluded |-> TRUE],
      [text |-> <<"a","P","P">>,             excluded |-> TRUE] }

\* what follows the first segment: the text, how many segments it adds,
\* whether it holds localhost or 127.0.0.1
HostSuffixes ==
    { [text |-> <<>>,                                          segments |-> 0, dev |-> FALSE],
      [text |-> <<".","i","o">>,                               segments |-> 1, dev |-> FALSE],
      [text |-> <<".","e","x",".","i","o">>,                   segments |-> 2, dev |-> FALSE],
      [text |-> <<".","e","x",".","c","o",".","u","k">>,       segments |-> 3, dev |-> FALSE],
      [text |-> <<".">> \o LOCALHOST,                          segments |-> 1, dev |-> TRUE],
      [text |-> <<".">> \o LOCALHOST \o <<".","i","o">>,       segments |-> 2, dev |-> TRUE],
      [text |-> <<".">> \o LOOPBACK,                           segments |-> 4, dev |-> TRUE] }

HostPorts == { <<>>, <<":","8","0">> }

\* the hostnames called with, each with what it was built from
\* beforeDash is the text before the first '-' that is not the first
\* character of the hostname, NULL without such a '-'; of the first segments
\* only my-co holds one and no suffix does
Hosts ==
    { [text       |-> f.text \o x.text \o p,
       first      |-> f.text,
       excluded   |-> f.excluded,
       segments   |-> 1 + x.segments,
       dev        |-> x.dev,
       beforeDash |-> IF f.text = <<"m","y","-","c","o">> THEN <<"m","y">> ELSE NULL] :
        f \in FirstSegments, x \in HostSuffixes, p \in HostPorts }

\* development hosts written out, among them the documented form
\* subdomain-localhost:3000
DevHostnames ==
    { [text |-> <<"a","c","m","e","-">> \o LOCALHOST, first |-> <<"a","c","m","e","-">> \o LOCALHOST,
       excluded |-> FALSE, segments |-> 1, dev |-> TRUE, beforeDash |-> <<"a","c","m","e">>],
      [text |-> <<"w","w","w","-">> \o LOCALHOST,     first |-> <<"w","w","w","-">> \o LOCALHOST,
       excluded |-> FALSE, segments |-> 1, dev |-> TRUE, beforeDash |-> <<"w","w","w">>],
      [text |-> <<"a","-","b","-","c",".">> \o LOOPBACK, first |-> <<"a","-","b","-","c">>,
       excluded |-> FALSE, segments |-> 5, dev |-> TRUE, beforeDash |-> <<"a">>],
      [text |-> LOCALHOST \o <<"-","x">>,             first |-> LOCALHOST \o <<"-","x">>,
       excluded |-> FALSE, segments |-> 1, dev |-> TRUE, beforeDash |-> LOCALHOST],
      [text |-> <<"-","x",".">> \o LOCALHOST,         first |-> <<"-","x">>,
       excluded |-> FALSE, segments |-> 2, dev |-> TRUE, beforeDash |-> NULL],
      [text |-> LOCALHOST,                            first |-> LOCALHOST,
       excluded |-> FALSE, segments |-> 1, dev |-> TRUE, beforeDash |-> NULL],
      [text |-> LOOPBACK,                             first |-> <<"1","2","7">>,
       excluded |-> FALSE, segments |-> 4, dev |-> TRUE, beforeDash |-> NULL] }

DevPort == <<":","3","0","0","0">>

DevHosts ==
    DevHostnames \cup { [h EXCEPT !.text = @ \o DevPort] : h \in DevHostnames }

\* a request without any host: nothing to extract from
NoHost ==
    [text |-> NULL, first |-> NULL, excluded |-> FALSE, segments |-> 0,
     dev |-> FALSE, beforeDash |-> NULL]

\* a host that yields a candidate no other host of the calls yields
DECOY_HOST == <<"d","e","c","o","y",".","e","x",".","i","o">>
DECOY      == <<"d","e","c","o","y">>

\* the tenant query parameters: no query object, a tenant, an empty one, none
Queries == { NONE, [tenant |-> GO], [tenant |-> <<>>], [tenant |-> NULL] }

\* the requests carrying a hostname h as the header that counts: in host
\* alone, in x-forwarded-host alone, or in host with another host forwarded
RequestsOf(h) ==
    { [headers |-> hd, query |-> q] :
        hd \in { [host |-> h, xfh |-> NULL], [host |-> NULL, xfh |-> h],
                 [host |-> h, xfh |-> DECOY_HOST] } \ { [host |-> NULL, xfh |-> DECOY_HOST] },
        q  \in Queries }

HostCalls(fn) ==
    UNION { { [fn |-> fn, arg |-> rq, about |-> h, result |-> NONE, returned |-> FALSE] :
                rq \in RequestsOf(h.text) } : h \in Hosts \cup DevHosts \cup {NoHost} }

\* the characters an identifier starts or ends with, and whether each is a
\* letter or a digit
EdgeChars ==
    { [text |-> <<"a">>, alnum |-> TRUE],
      [text |-> <<"Z">>, alnum |-> TRUE],
      [text |-> <<"7">>, alnum |-> TRUE],
      [text |-> <<"-">>, alnum |-> FALSE],
      [text |-> <<"_">>, alnum |-> FALSE],
      [text |-> <<".">>, alnum |-> FALSE] }

A8  == <<"a","a","a","a","a","a","a","a">>
A46 == A8 \o A8 \o A8 \o A8 \o A8 \o <<"b","-","C","4","-","d">>

\* what lies between the two ends, and whether it is made of letters,
\* digits and hyphens only; the longest three give lengths 48, 50 and 51
Interiors ==
    { [text |-> <<>>,                      ok |-> TRUE],
      [text |-> <<"-">>,                   ok |-> TRUE],
      [text |-> <<"b","-","-","C","4">>,   ok |-> TRUE],
      [text |-> <<"_">>,                   ok |-> FALSE],
      [text |-> <<"b"," ","c">>,           ok |-> FALSE],
      [text |-> A46,                       ok |-> TRUE],
      [text |-> A46 \o <<"e","5">>,        ok |-> TRUE],
      [text |-> A46 \o <<"e","5","f">>,    ok |-> TRUE] }

\* the reserved words as callers may write them, and two near misses
ReservedSpellings ==
    { <<"w","w","w">>, <<"W","W","W">>, <<"a","p","i">>, <<"A","p","i">>,
      <<"a","d","m","i","n">>, <<"a","D","M","I","N">>, <<"a","p","p">>,
      <<"M","A","I","L">>, <<"f","t","p">>, <<"B","l","o","g">>,
      <<"s","u","p","p","o","r","t">>, <<"H","E","L","P">>, <<"d","o","c","s">>,
      <<"S","t","a","t","u","s">>, <<"c","d","n">>, <<"C","D","N">>,
      <<"a","s","s","e","t","S">> }

NearReserved == { <<"w","w","w","w">>, <<"c","d","n","1">>, <<"a","p">> }

\* the identifiers isValidSubdomain is called with, each with what it was
\* built from
Identifiers ==
    { [text |-> h.text \o m.text \o t.text, string |-> TRUE, headAlnum |-> h.alnum,
       tailAlnum |-> t.alnum, interiorOk |-> m.ok, reserved |-> FALSE] :
        h \in EdgeChars, m \in Interiors, t \in EdgeChars }
    \cup
    { [text |-> e.text, string |-> TRUE, headAlnum |-> e.alnum,
       tailAlnum |-> e.alnum, interiorOk |-> TRUE, reserved |-> FALSE] : e \in EdgeChars }
    \cup
    { [text |-> w, string |-> TRUE, headAlnum |-> TRUE,
       tailAlnum |-> TRUE, interiorOk |-> TRUE, reserved |-> TRUE] : w \in ReservedSpellings }
    \cup
    { [text |-> w, string |-> TRUE, headAlnum |-> TRUE,
       tailAlnum |-> TRUE, interiorOk |-> TRUE, reserved |-> FALSE] : w \in NearReserved }
    \cup
    { [text |-> <<>>, string |-> TRUE, headAlnum |-> FALSE,
       tailAlnum |-> FALSE, interiorOk |-> TRUE, reserved |-> FALSE],
      [text |-> NULL, string |-> FALSE, headAlnum |-> FALSE,
       tailAlnum |-> FALSE, interiorOk |-> FALSE, reserved |-> FALSE] }

IdentifierCalls ==
    { [fn |-> "isValidSubdomain", arg |-> i.text, about |-> i,
       result |-> NONE, returned |-> FALSE] : i \in Identifiers }

InitCalls ==
    /\ tenantCache = [k \in {} |-> NONE]
    /\ now = 0
    /\ inv = [r \in Req |-> Idle]
    /\ dbContext = NULL
    /\ api = [r \in Req |-> ApiIdle]
    /\ overtaken = {}
    /\ tainted = {}
    /\ ui = UiLoaded
    /\ \/ call \in HostCalls("extractSubdomain")
       \/ call \in HostCalls("resolveTenant")
       \/ call \in IdentifierCalls

\* extractSubdomain(req) is called and returns
CallExtractSubdomain ==
    /\ call.fn = "extractSubdomain"
    /\ ~call.returned
    /\ call' = [call EXCEPT !.result = extractSubdomain(call.arg), !.returned = TRUE]
    /\ UNCHANGED <<tenantCache, now, inv, handlerVars, historyVars, ui>>

\* resolveTenant(req, res) is called on an empty cache and runs to its first
\* await or to its return
CallResolveTenant ==
    /\ call.fn = "resolveTenant"
    /\ ~call.returned
    /\ call' = [call EXCEPT
                  !.result = ResolveStart([Idle EXCEPT !.req = call.arg],
                                          tenantCache, now, "ok", "ok"),
                  !.returned = TRUE]
    /\ UNCHANGED <<tenantCache, now, inv, handlerVars, historyVars, ui>>

\* isValidSubdomain(subdomain) is called and returns
CallIsValidSubdomain ==
    /\ call.fn = "isValidSubdomain"
    /\ ~call.returned
    /\ call' = [call EXCEPT !.result = isValidSubdomain(call.arg), !.returned = TRUE]
    /\ UNCHANGED <<tenantCache, now, inv, handlerVars, historyVars, ui>>

NextCalls ==
    \/ CallExtractSubdomain
    \/ CallResolveTenant
    \/ CallIsValidSubdomain

SpecCalls == InitCalls /\ [][NextCalls]_vars

\* ------------------------------------------------------------------------
\* Calls of the administrative surface on the caches the resolver builds
\* ------------------------------------------------------------------------

\* the values of Date.now() the clock reaches
Times == {0} \cup {d \in ClockSteps : d <= MaxNow}

\* the tenantInfo objects getTenantInfo caches for a subdomain
ActiveInfos(subdomain) ==
    { TenantInfo(subdomain, row) :
        row \in {x \in StoreRows(subdomain) : x.tenant_status = "active"} }

\* the entries the cache may hold for a subdomain at time t: a tenantInfo or
\* the negative result, written at time 0 or at time t
EntriesOf(subdomain, t) ==
    { [data |-> d, timestamp |-> u] :
        d \in {NONE} \cup ActiveInfos(subdomain), u \in {0, t} }

CachesOver(S, t) ==
    { c \in [ {CacheKey(x) : x \in S} -> UNION {EntriesOf(x, t) : x \in S} ] :
        \A x \in S : c[CacheKey(x)] \in EntriesOf(x, t) }

\* the contents of tenantCache at time t
CachesAt(t) == UNION { CachesOver(S, t) : S \in SUBSET Subdomains }

InitAdmin ==
    /\ now \in Times
    /\ tenantCache \in CachesAt(now)
    /\ inv = [r \in Req |-> Idle]
    /\ dbContext = NULL
    /\ api = [r \in Req |-> ApiIdle]
    /\ overtaken = {}
    /\ tainted = {}
    /\ ui = UiLoaded
    /\ call = NoCall

\* statistics that count only the entries younger than CACHE_TTL
getTenantCacheStats_FreshOnly(c) ==
    [ size |-> Cardinality({k \in DOMAIN c : IsFresh(c[k], now)}),
      keys |-> {k \in DOMAIN c : IsFresh(c[k], now)} ]

\* getTenantCacheStats()
getTenantCacheStats(c) == [size |-> Cardinality(DOMAIN c), keys |-> DOMAIN c]

\* clearTenantCache(subdomain) is called; the call keeps the Map as it was
CallClearTenantCache(subdomain) ==
    /\ clearTenantCache(subdomain)
    /\ call' = [fn |-> "clearTenantCache", arg |-> subdomain, about |-> tenantCache,
                result |-> NONE, returned |-> TRUE]
    /\ UNCHANGED <<handlerVars, historyVars, ui>>

\* clearAllTenantCache() is called
CallClearAllTenantCache ==
    /\ clearAllTenantCache
    /\ call' = [fn |-> "clearAllTenantCache", arg |-> NONE, about |-> tenantCache,
                result |-> NONE, returned |-> TRUE]
    /\ UNCHANGED <<handlerVars, historyVars, ui>>

\* getTenantCacheStats() is called; the call keeps which call preceded it
CallGetTenantCacheStats ==
    /\ call' = [fn |-> "getTenantCacheStats", arg |-> NONE, about |-> [after |-> call.fn],
                result |-> getTenantCacheStats(tenantCache), returned |-> TRUE]
    /\ UNCHANGED <<tenantCache, now, inv, handlerVars, historyVars, ui>>

NextAdmin ==
    \/ \E s \in Subdomains : CallClearTenantCache(s)
    \/ CallClearAllTenantCache
    \/ CallGetTenantCacheStats

SpecAdmin == InitAdmin /\ [][NextAdmin]_vars

\* under Spec: the cache the resolver has built is one of CachesAt(now)
CacheIsOneOfCachesAt == tenantCache \in CachesAt(now)

\* ------------------------------------------------------------------------
\* The resolver and the invalidations, with the history of which lookups
\* were in flight when their key was invalidated
\* ------------------------------------------------------------------------

\* the slots whose lookup rpc for subdomain is in flight
InFlight(subdomain) ==
    {r \in Req : inv[r].pc = "lookup" /\ inv[r].subdomain = subdomain}

\* the lookup of slot r is answered: if it wrote the cache, the entry is one
\* obtained before an invalidation exactly when the lookup was overtaken
RefreshLookupAnswer(r) ==
    /\ LookupAnswer(r)
    /\ overtaken' = overtaken \ {r}
    /\ LET key == CacheKey(inv[r].subdomain) IN
       tainted' = IF key \in DOMAIN tenantCache' /\ tenantCache' # tenantCache
                  THEN IF r \in overtaken THEN tainted \cup {key} ELSE tainted \ {key}
                  ELSE tainted

\* clearTenantCache(subdomain) returns while lookups may be in flight
RefreshClearTenantCache(subdomain) ==
    /\ clearTenantCache(subdomain)
    /\ overtaken' = overtaken \cup InFlight(subdomain)
    /\ tainted' = tainted \ {CacheKey(subdomain)}

\* clearAllTenantCache() returns while lookups may be in flight
RefreshClearAllTenantCache ==
    /\ clearAllTenantCache
    /\ overtaken' = overtaken \cup UNION {InFlight(s) : s \in Subdomains}
    /\ tainted' = {}

NextRefresh ==
    \/ (\E r \in Req : Begin(r))                       /\ UNCHANGED <<handlerVars, historyVars, call, ui>>
    \/ (\E r \in Req : RefreshLookupAnswer(r))         /\ UNCHANGED <<handlerVars, call, ui>>
    \/ (\E r \in Req : ContextAnswer(r))               /\ UNCHANGED <<handlerVars, historyVars, call, ui>>
    \/ (\E r \in Req : Return(r))                      /\ UNCHANGED <<handlerVars, historyVars, call, ui>>
    \/ (\E s \in Subdomains : RefreshClearTenantCache(s)) /\ UNCHANGED <<handlerVars, call, ui>>
    \/ RefreshClearAllTenantCache                      /\ UNCHANGED <<handlerVars, call, ui>>

SpecRefresh == Init /\ [][NextRefresh]_vars

\* ------------------------------------------------------------------------
\* Vocabulary of the properties
\* ------------------------------------------------------------------------

Done(r) == inv[r].pc = "done"

\* the error an invocation reported to its caller, NONE if it reported none
ReportedError(st) ==
    IF st.useNext THEN st.reqTenantError
    ELSE IF st.ret = NONE THEN NONE ELSE st.ret.error

ErrorCode(st) ==
    IF ReportedError(st) = NONE THEN "none" ELSE ReportedError(st).code

\* the step in which resolveTenant is called in slot r
BeginStep(r) == inv[r].pc = "idle" /\ inv'[r].pc # "idle"

\* the step in which the lookup rpc of slot r is answered
LookupStep(r) == inv[r].pc = "lookup" /\ inv'[r].pc # "lookup"

\* what the store answered to the lookup of an invocation
LookupFailed(st) ==
    st.lookupResp # NONE /\ (st.lookupResp.thrown \/ st.lookupResp.error # NONE)

LookupAnsweredRows(st) ==
    /\ st.lookupResp # NONE
    /\ ~st.lookupResp.thrown
    /\ st.lookupResp.error = NONE

LookupEmpty(st) ==
    /\ LookupAnsweredRows(st)
    /\ (st.lookupResp.data = NONE \/ Len(st.lookupResp.data.rows) = 0)

LookupRow(st) == st.lookupResp.data.rows[1]

LookupInactive(st) ==
    /\ LookupAnsweredRows(st)
    /\ st.lookupResp.data # NONE
    /\ Len(st.lookupResp.data.rows) > 0
    /\ LookupRow(st).tenant_status # "active"

LookupActive(st) ==
    /\ LookupAnsweredRows(st)
    /\ st.lookupResp.data # NONE
    /\ Len(st.lookupResp.data.rows) > 0
    /\ LookupRow(st).tenant_status = "active"

\* ------------------------------------------------------------------------
\* Properties
\* ------------------------------------------------------------------------

\* C1: resolveTenant called without next returns an object in which exactly
\* one of tenant and error is non-null, whatever the request and whatever the
\* two remote calls answered.
C1_ExactlyOneOfTenantAndError ==
    \A r \in Req :
        (Done(r) /\ ~inv[r].useNext) =>
            /\ inv[r].ret # NONE
            /\ (inv[r].ret.tenant = NONE) # (inv[r].ret.error = NONE)

\* one invocation has returned a tenant, another one an error after its
\* set_tenant_context call failed
C1_Witness ==
    \E r1, r2 \in Req :
        /\ Done(r1) /\ ~inv[r1].useNext
        /\ inv[r1].ret.tenant # NONE /\ inv[r1].ret.error = NONE
        /\ Done(r2) /\ ~inv[r2].useNext
        /\ inv[r2].contextOut \in {"error", "throw"}
        /\ inv[r2].ret.tenant = NONE /\ inv[r2].ret.error # NONE

\* C2: no exception escapes resolveTenant, and every internal failure (the
\* lookup rpc failing, set_tenant_context failing, a runtime error) ends in a
\* structured error with code TENANT_RESOLUTION_ERROR, a message and details.
C2_FailuresBecomeResolutionError ==
    \A r \in Req :
        (Done(r) /\ ~inv[r].nextThrew) =>
            /\ ~inv[r].escaped
            /\ (inv[r].threw \/ LookupFailed(inv[r]) \/ inv[r].contextOut \in {"error", "throw"})
                  => /\ ErrorCode(inv[r]) = "TENANT_RESOLUTION_ERROR"
                     /\ ReportedError(inv[r]).message = TenantResolutionError.message
                     /\ ReportedError(inv[r]).details = TenantResolutionError.details

\* C3: a tenant record that getTenantInfo or resolveTenant hands back, fresh
\* from the store or out of the cache, has status "active"; a stored record
\* with any other status resolves to TENANT_NOT_FOUND.
C3_ReturnedTenantIsActive ==
    \A r \in Req :
        /\ inv[r].tenant # NONE => inv[r].tenant.status = "active"
        /\ (Done(r) /\ inv[r].ret # NONE /\ inv[r].ret.tenant # NONE)
              => inv[r].ret.tenant.status = "active"
        /\ (Done(r) /\ ~inv[r].useNext /\ LookupInactive(inv[r]))
              => /\ inv[r].ret.tenant = NONE
                 /\ ErrorCode(inv[r]) = "TENANT_NOT_FOUND"

\* one invocation was answered a suspended row and has returned, another has
\* returned a tenant served from the cache
C3_Witness ==
    \E r1, r2 \in Req :
        /\ Done(r1) /\ LookupInactive(inv[r1])
        /\ Done(r2) /\ inv[r2].cacheUse = "fresh" /\ inv[r2].ret.tenant # NONE

\* C4: when set_tenant_context fails after a successful lookup the result is
\* tenant null with TENANT_RESOLUTION_ERROR; a tenant is returned only by an
\* invocation whose set_tenant_context call for that tenant's id succeeded.
C4_ContextFailureFailsResolution ==
    \A r \in Req :
        (Done(r) /\ ~inv[r].useNext) =>
            /\ inv[r].contextOut \in {"error", "throw"}
                  => /\ inv[r].ret.tenant = NONE
                     /\ ErrorCode(inv[r]) = "TENANT_RESOLUTION_ERROR"
            /\ inv[r].ret.tenant # NONE
                  => /\ inv[r].contextOut = "ok"
                     /\ inv[r].contextCalls = 1
                     /\ inv[r].contextArg = inv[r].ret.tenant.id

\* set_tenant_context resolved with an error for a freshly fetched tenant
C4_Witness ==
    \E r \in Req :
        /\ Done(r) /\ ~inv[r].useNext
        /\ LookupActive(inv[r])
        /\ inv[r].contextOut = "error"
        /\ ErrorCode(inv[r]) = "TENANT_RESOLUTION_ERROR"

\* C5: when the lookup rpc fails (error value or exception) for a well-formed
\* identifier without a fresh cache entry, resolveTenant reports
\* TENANT_RESOLUTION_ERROR, not TENANT_NOT_FOUND.
C5_LookupFailureIsResolutionError ==
    \A r \in Req :
        (Done(r) /\ ~inv[r].useNext /\ LookupFailed(inv[r]))
            => ErrorCode(inv[r]) = "TENANT_RESOLUTION_ERROR"

\* C6: a lookup rpc that fails (error value or exception) leaves the cache
\* exactly as it was: no entry is added, overwritten or removed.
C6_FailedLookupLeavesCache ==
    [][ \A r \in Req :
          (LookupStep(r) /\ LookupFailed(inv'[r])) => tenantCache' = tenantCache ]_vars

\* a failed lookup has returned and the stale entry it found is still cached
C6_Witness ==
    \E r \in Req :
        /\ Done(r) /\ LookupFailed(inv[r])
        /\ inv[r].cacheUse = "stale"
        /\ CacheKey(inv[r].subdomain) \in DOMAIN tenantCache

\* C7: a lookup answered with zero rows yields TENANT_NOT_FOUND and stores a
\* negative entry stamped with the time of the answer; a lookup that starts
\* while a negative entry is younger than TTL yields TENANT_NOT_FOUND without
\* a remote call.
C7_NotFoundIsCached ==
    [][ \A r \in Req :
          /\ (LookupStep(r) /\ LookupEmpty(inv'[r]))
                => /\ inv'[r].pc = "done"
                   /\ ErrorCode(inv'[r]) = "TENANT_NOT_FOUND"
                   /\ CacheGet(tenantCache', CacheKey(inv[r].subdomain))
                         = [data |-> NONE, timestamp |-> now]
          /\ (/\ BeginStep(r)
              /\ Truthy(inv'[r].subdomain)
              /\ LET e == CacheGet(tenantCache, CacheKey(inv'[r].subdomain)) IN
                   e # NONE /\ e.data = NONE /\ now - e.timestamp < CACHE_TTL)
                => /\ inv'[r].pc = "done"
                   /\ inv'[r].lookupCalls = 0
                   /\ ErrorCode(inv'[r]) = "TENANT_NOT_FOUND" ]_vars

\* a request was answered TENANT_NOT_FOUND from a negative entry of age TTL - 1
C7_Witness ==
    \E r \in Req :
        /\ Done(r) /\ inv[r].cacheUse = "fresh" /\ inv[r].lookupCalls = 0
        /\ ErrorCode(inv[r]) = "TENANT_NOT_FOUND"
        /\ CacheKey(inv[r].subdomain) \in DOMAIN tenantCache
        /\ tenantCache[CacheKey(inv[r].subdomain)].data = NONE
        /\ now - tenantCache[CacheKey(inv[r].subdomain)].timestamp = CACHE_TTL - 1

\* C8: a lookup answered with a record that is not active stores a not-found
\* entry for the identifier before getTenantInfo returns.
C8_InactiveAnswerIsCached ==
    [][ \A r \in Req :
          (LookupStep(r) /\ LookupInactive(inv'[r]))
              => CacheGet(tenantCache', CacheKey(inv[r].subdomain))
                    = [data |-> NONE, timestamp |-> now] ]_vars

\* C9: a lookup answered with an active record stores it stamped with the
\* time of the answer; a lookup that starts while that entry is younger than
\* TTL gets the cached record without a remote call, and the record is what
\* resolveTenant returns once the context is set.
C9_FreshEntryIsServed ==
    [][ \A r \in Req :
          /\ (LookupStep(r) /\ LookupActive(inv'[r]))
                => /\ inv'[r].tenant # NONE
                   /\ CacheGet(tenantCache', CacheKey(inv[r].subdomain))
                         = [data |-> inv'[r].tenant, timestamp |-> now]
          /\ (/\ BeginStep(r)
              /\ Truthy(inv'[r].subdomain)
              /\ LET e == CacheGet(tenantCache, CacheKey(inv'[r].subdomain)) IN
                   e # NONE /\ e.data # NONE /\ now - e.timestamp < CACHE_TTL)
                => /\ inv'[r].lookupCalls = 0
                   /\ inv'[r].pc = "setctx"
                   /\ inv'[r].tenant
                         = CacheGet(tenantCache, CacheKey(inv'[r].subdomain)).data
          /\ (/\ inv[r].pc = "setctx" /\ inv'[r].pc = "done"
              /\ ~inv[r].useNext /\ inv'[r].contextOut = "ok")
                => inv'[r].ret.tenant = inv[r].tenant ]_vars

\* a request got its tenant from an entry of age TTL - 1 without a remote
\* lookup
C9_Witness ==
    \E r \in Req :
        /\ Done(r) /\ inv[r].cacheUse = "fresh" /\ inv[r].lookupCalls = 0
        /\ inv[r].ret.tenant # NONE
        /\ CacheKey(inv[r].subdomain) \in DOMAIN tenantCache
        /\ tenantCache[CacheKey(inv[r].subdomain)].data = inv[r].ret.tenant
        /\ now - tenantCache[CacheKey(inv[r].subdomain)].timestamp = CACHE_TTL - 1

\* C10: an entry is served if and only if now - timestamp < TTL; a lookup
\* that starts at age TTL or more issues the rpc although the entry is still
\* in the map, and an answer with an active record overwrites the entry with
\* the new record and the time of the answer.
C10_StaleEntryIsRefetched ==
    [][ \A r \in Req :
          /\ (/\ BeginStep(r)
              /\ Truthy(inv'[r].subdomain)
              /\ CacheKey(inv'[r].subdomain) \in DOMAIN tenantCache)
                => LET e == tenantCache[CacheKey(inv'[r].subdomain)] IN
                   /\ (inv'[r].lookupCalls = 0) <=> (now - e.timestamp < CACHE_TTL)
                   /\ (now - e.timestamp >= CACHE_TTL)
                         => /\ inv'[r].pc = "lookup"
                            /\ inv'[r].lookupCalls = 1
                            /\ tenantCache' = tenantCache
          /\ (/\ LookupStep(r) /\ LookupActive(inv'[r])
              /\ CacheKey(inv[r].subdomain) \in DOMAIN tenantCache)
                => tenantCache'[CacheKey(inv[r].subdomain)]
                      = [data |-> TenantInfo(inv[r].subdomain, LookupRow(inv'[r])),
                         timestamp |-> now] ]_vars

\* a lookup that found an entry of age TTL has re-fetched an active record,
\* and the entry now carries the time of the answer
C10_Witness ==
    \E r \in Req :
        /\ inv[r].pc = "setctx" /\ inv[r].cacheUse = "stale"
        /\ LookupActive(inv[r])
        /\ now = CACHE_TTL
        /\ CacheKey(inv[r].subdomain) \in DOMAIN tenantCache
        /\ tenantCache[CacheKey(inv[r].subdomain)]
              = [data |-> inv[r].tenant, timestamp |-> now]

\* C11: whenever the store runs the phrases query of a request that resolved
\* to tenant T, the latest successful set_tenant_context in the store is for
\* T's id, under every interleaving of concurrent requests.
C11_QueryRunsInOwnTenantContext ==
    \A r \in Req :
        api[r].queryCtx # NULL => api[r].queryCtx = inv[r].ret.tenant.id

\* a returned call of extractSubdomain on a hostname of at least 3 segments
\* whose first segment is not excluded
ExtractedPlainHost ==
    /\ call.fn = "extractSubdomain"
    /\ call.returned
    /\ call.about.segments >= 3
    /\ ~call.about.excluded

\* C12 as stated: for every hostname with at least 3 dot-separated segments
\* whose first segment is not www, api, admin or app in any letter case,
\* extractSubdomain returns exactly that first segment.
C12_FirstSegmentOfEveryHost ==
    ExtractedPlainHost => call.result = call.about.first

\* C12, amended: the same for every hostname that holds neither localhost
\* nor 127.0.0.1.
C12_FirstSegmentOfProductionHost ==
    (ExtractedPlainHost /\ ~call.about.dev) => call.result = call.about.first

\* a mixed-case first segment of a 3-segment host with a port, read from
\* x-forwarded-host, has been returned as written
C12_Witness ==
    /\ ExtractedPlainHost
    /\ ~call.about.dev
    /\ call.about.segments = 3
    /\ call.arg.headers.host = NULL
    /\ call.about.text # call.about.first \o <<".","e","x",".","i","o">>
    /\ call.about.first = <<"A","c","m","e">>
    /\ call.result = <<"A","c","m","e">>

\* a returned call on a hostname whose first segment is www, api, admin or
\* app in some letter case
CalledExcludedHost(fn) ==
    /\ call.fn = fn
    /\ call.returned
    /\ call.about.excluded

\* resolveTenant has returned tenant null and INVALID_SUBDOMAIN and has
\* issued no rpc
RejectedWithoutRemoteCall(st) ==
    /\ st.pc = "done"
    /\ st.ret.tenant = NONE
    /\ st.ret.error # NONE
    /\ st.ret.error.code = "INVALID_SUBDOMAIN"
    /\ st.lookupCalls = 0
    /\ st.contextCalls = 0

\* C13 as stated: for every hostname whose first segment is, in any letter
\* case, www, api, admin or app, extractSubdomain returns nothing and
\* resolveTenant returns tenant null with INVALID_SUBDOMAIN without any
\* remote call.
C13_ExcludedFirstSegmentOfEveryHost ==
    /\ CalledExcludedHost("extractSubdomain") => call.result = NULL
    /\ CalledExcludedHost("resolveTenant") => RejectedWithoutRemoteCall(call.result)

\* C13, amended: the same for every hostname that holds neither localhost
\* nor 127.0.0.1.
C13_ExcludedFirstSegmentOfProductionHost ==
    /\ (CalledExcludedHost("extractSubdomain") /\ ~call.about.dev)
          => call.result = NULL
    /\ (CalledExcludedHost("resolveTenant") /\ ~call.about.dev)
          => RejectedWithoutRemoteCall(call.result)

\* resolveTenant has rejected WWW.ex.io, a host of 3 segments
C13_Witness ==
    /\ CalledExcludedHost("resolveTenant")
    /\ ~call.about.dev
    /\ call.about.first = <<"W","W","W">>
    /\ call.about.segments = 3
    /\ RejectedWithoutRemoteCall(call.result)

\* a returned call of isValidSubdomain
ValidatedIdentifier == call.fn = "isValidSubdomain" /\ call.returned

\* C14: isValidSubdomain(s) is true exactly when s is a string of length 2
\* to 50 whose first and last characters are letters or digits, whose
\* interior is letters, digits and hyphens, and which is not one of the 13
\* reserved words in any letter case.
C14_ValidExactlyWhenWellFormed ==
    ValidatedIdentifier =>
        (call.result = TRUE <=>
            /\ call.about.string
            /\ Len(call.arg) >= 2
            /\ Len(call.arg) <= 50
            /\ call.about.headAlnum
            /\ call.about.tailAlnum
            /\ call.about.interiorOk
            /\ ~call.about.reserved)

\* an identifier of exactly 50 characters with hyphens inside was accepted
C14_Witness ==
    /\ ValidatedIdentifier
    /\ call.about.string
    /\ Len(call.arg) = 50
    /\ \E i \in DOMAIN call.arg : call.arg[i] = "-"
    /\ call.result = TRUE

\* C15: clearTenantCache(s) removes the entry of s if there is one and
\* leaves every other entry, value and timestamp, as it was; without an
\* entry for s it changes nothing.
C15_ClearRemovesOnlyItsEntry ==
    call.fn = "clearTenantCache" =>
        LET before == call.about
            key    == CachePrefix \o call.arg
        IN  /\ key \notin DOMAIN tenantCache
            /\ DOMAIN tenantCache = (DOMAIN before) \ {key}
            /\ \A k \in DOMAIN tenantCache : tenantCache[k] = before[k]
            /\ (key \notin DOMAIN before => tenantCache = before)

\* the entry of acme was removed while the entry of go, written earlier,
\* stayed
C15_Witness ==
    /\ call.fn = "clearTenantCache"
    /\ call.arg = ACME
    /\ CacheKey(ACME) \in DOMAIN call.about
    /\ CacheKey(GO) \in DOMAIN tenantCache
    /\ tenantCache[CacheKey(GO)].timestamp < now
    /\ tenantCache[CacheKey(GO)].data # NONE

\* C16: once clearTenantCache(s) or clearAllTenantCache has returned, no
\* lookup for s that starts afterwards is served a cached value obtained
\* from an rpc issued before the invalidation, also when a lookup for s was
\* in flight at the invalidation.
C16_NoValueFromBeforeInvalidation ==
    [][\A r \in Req :
          (BeginStep(r) /\ inv'[r].cacheUse = "fresh")
              => CacheKey(inv'[r].subdomain) \notin tainted]_vars

\* slot r1 was answered no row and slot r2 a row that is not active, for the
\* same request, and both have returned
AbsentAndInactive(r1, r2) ==
    /\ Done(r1)
    /\ Done(r2)
    /\ inv[r1].req = inv[r2].req
    /\ LookupEmpty(inv[r1])
    /\ LookupInactive(inv[r2])

\* C17: for the same request, resolveTenant returns the same result (tenant
\* null, TENANT_NOT_FOUND, same message and details) whether the store holds
\* a record that is not active or no record at all.
C17_InactiveLooksAbsent ==
    \A r1, r2 \in Req :
        AbsentAndInactive(r1, r2) =>
            /\ inv[r1].ret = inv[r2].ret
            /\ inv[r2].ret.tenant = NONE
            /\ inv[r2].ret.error.code = "TENANT_NOT_FOUND"

\* two requests for go, one answered no row and one a suspended row, have
\* both returned
C17_Witness ==
    \E r1, r2 \in Req :
        /\ AbsentAndInactive(r1, r2)
        /\ inv[r1].subdomain = GO
        /\ inv[r2].lookupResp.data.rows[1].tenant_status = "suspended"

\* C18: one resolveTenant invocation issues at most one
\* get_tenant_by_subdomain call and at most one set_tenant_context call,
\* whatever the calls return.
C18_AtMostOneCallOfEach ==
    \A r \in Req : inv[r].lookupCalls <= 1 /\ inv[r].contextCalls <= 1

\* an invocation has returned after both of its calls were issued once and
\* set_tenant_context failed
C18_Witness ==
    \E r \in Req :
        /\ Done(r)
        /\ inv[r].lookupCalls = 1
        /\ inv[r].contextCalls = 1
        /\ inv[r].contextOut \in {"error", "throw"}

\* the four error codes of resolveTenant
ErrorCodes ==
    { "INVALID_SUBDOMAIN", "INVALID_SUBDOMAIN_FORMAT",
      "TENANT_NOT_FOUND", "TENANT_RESOLUTION_ERROR" }

\* the invocation ended Resolved: a tenant and no error
Resolved(st) == st.ret # NONE /\ st.ret.tenant # NONE /\ st.ret.error = NONE

\* the invocation ended Errored: no tenant and one of the four codes
Errored(st) ==
    /\ st.ret # NONE
    /\ st.ret.tenant = NONE
    /\ st.ret.error # NONE
    /\ st.ret.error.code \in ErrorCodes

\* the invocation awaits one of its rpcs
Awaiting(r) == inv[r].pc \in {"lookup", "setctx"}

\* C19: every resolveTenant invocation eventually ends, in exactly one of
\* Resolved and Errored with one of the four codes, provided every rpc it
\* issues is eventually answered.
C19_EveryInvocationEnds ==
    /\ \A r \in Req : Awaiting(r) ~> Done(r)
    /\ [](\A r \in Req : Done(r) => (Resolved(inv[r]) /= Errored(inv[r])))

\* an invocation that awaited both rpcs has ended Resolved
C19_Witness ==
    \E r \in Req :
        /\ Done(r)
        /\ inv[r].lookupCalls = 1
        /\ inv[r].contextCalls = 1
        /\ Resolved(inv[r])

\* C20: right after clearAllTenantCache the Map is empty and
\* getTenantCacheStats reports size 0 and no key; at all times
\* getTenantCacheStats reports as size the number of keys it lists, and it
\* lists exactly the keys stored, entries older than CACHE_TTL included.
C20_StatsListEveryStoredKey ==
    /\ call.fn = "clearAllTenantCache" => DOMAIN tenantCache = {}
    /\ call.fn = "getTenantCacheStats" =>
          /\ call.result.size = Cardinality(call.result.keys)
          /\ call.result.keys = DOMAIN tenantCache
          /\ call.about.after = "clearAllTenantCache" =>
                (call.result.size = 0 /\ call.result.keys = {})

\* the statistics list two keys, one of an entry older than CACHE_TTL
C20_Witness ==
    /\ call.fn = "getTenantCacheStats"
    /\ call.result.size = 2
    /\ \E k \in call.result.keys : now - tenantCache[k].timestamp > CACHE_TTL

\* the invocation has issued one of its rpcs
IssuedLookup(st)  == st.lookupCalls > 0
IssuedContext(st) == st.contextCalls > 0

\* the request is one of the two whose host yields a valid candidate, and
\* the invocation holds that candidate
CandidateOfValidHost(st) ==
    /\ st.req.headers # NONE
    /\ \/ st.req.headers.host = ACME_HOST /\ st.subdomain = ACME
       \/ st.req.headers.host = NULL /\ st.req.headers.xfh = GO_HOST /\ st.subdomain = GO

\* C21: the lookup rpc is issued only for a candidate that was extracted and
\* passed isValidSubdomain; set_tenant_context is called only after the
\* lookup of the same invocation yielded an active tenant, with that
\* tenant's id; a request failing extraction or validation issues no rpc.
C21_StepsInOrder ==
    \A r \in Req :
        LET st == inv[r] IN
        /\ (IssuedLookup(st) \/ IssuedContext(st)) => CandidateOfValidHost(st)
        /\ st.pc = "lookup" => ~IssuedContext(st)
        /\ IssuedContext(st) =>
              /\ st.tenant # NONE
              /\ st.tenant.status = "active"
              /\ st.tenant.subdomain = st.subdomain
              /\ st.contextArg = st.tenant.id
              /\ \/ st.cacheUse = "fresh" /\ ~IssuedLookup(st)
                 \/ LookupActive(st) /\ st.contextArg = LookupRow(st).tenant_id
        /\ ErrorCode(st) \in {"INVALID_SUBDOMAIN", "INVALID_SUBDOMAIN_FORMAT"} =>
              ~IssuedLookup(st) /\ ~IssuedContext(st)

\* one slot has called set_tenant_context after its own lookup rpc, while
\* the other was rejected for its format without any rpc
C21_Witness ==
    \E r1, r2 \in Req :
        /\ inv[r1].pc = "setctx"
        /\ IssuedLookup(inv[r1])
        /\ LookupActive(inv[r1])
        /\ ErrorCode(inv[r2]) = "INVALID_SUBDOMAIN_FORMAT"
        /\ ~IssuedLookup(inv[r2])

\* C22: when a second lookup for an identifier starts while the rpc of a
\* first lookup for it is still pending, at most one lookup rpc is issued
\* for the two: no two slots await a lookup rpc for the same identifier.
C22_OverlappingLookupsShareOneCall ==
    \A r1, r2 \in Req :
        (r1 # r2 /\ inv[r1].pc = "lookup" /\ inv[r2].pc = "lookup")
            => inv[r1].subdomain # inv[r2].subdomain

\* C23: in every reachable state each cache entry is keyed 'tenant:' +
\* identifier and holds null or a record whose status is 'active' and whose
\* subdomain is that identifier.
C23_CacheEntriesWellFormed ==
    \A k \in DOMAIN tenantCache :
        \E s \in Subdomains :
            /\ k = <<"t","e","n","a","n","t",":">> \o s
            /\ \/ tenantCache[k].data = NONE
               \/ /\ tenantCache[k].data.status = "active"
                  /\ tenantCache[k].data.subdomain = s

\* the cache holds a negative entry and an active record at once, while a
\* lookup is pending and after the clock has moved
C23_Witness ==
    /\ Cardinality(DOMAIN tenantCache) = 2
    /\ \E k \in DOMAIN tenantCache : tenantCache[k].data = NONE
    /\ \E k \in DOMAIN tenantCache : tenantCache[k].data # NONE
    /\ \E r \in Req : inv[r].pc = "lookup"
    /\ now > 0

\* a returned call of fn
Returned(fn) == call.fn = fn /\ call.returned

\* the tenant query parameter of the call's request, NULL if none is given
GivenTenant ==
    IF call.arg.query = NONE THEN NULL
    ELSE IF call.arg.query.tenant = <<>> THEN NULL
    ELSE call.arg.query.tenant

\* what the development rule yields for the call's host
DevelopmentCandidate ==
    IF call.about.beforeDash # NULL THEN call.about.beforeDash
    ELSE IF GivenTenant # NULL THEN GivenTenant
    ELSE <<"d","e","m","o">>

\* C24: for a host holding localhost or 127.0.0.1, extractSubdomain returns
\* the text before the first '-' when the hostname holds one past its first
\* character, whatever the tenant query parameter; otherwise the tenant
\* query parameter if given, else 'demo'; resolveTenant never answers
\* INVALID_SUBDOMAIN for such a host.
C24_DevelopmentRule ==
    /\ (Returned("extractSubdomain") /\ call.about.dev)
          => call.result = DevelopmentCandidate
    /\ (Returned("resolveTenant") /\ call.about.dev)
          => ErrorCode(call.result) # "INVALID_SUBDOMAIN"

\* acme-localhost:3000 with a tenant query parameter has yielded acme
C24_Witness ==
    /\ Returned("extractSubdomain")
    /\ call.about.dev
    /\ call.about.text = <<"a","c","m","e","-">> \o LOCALHOST \o DevPort
    /\ GivenTenant = GO
    /\ call.result = <<"a","c","m","e">>

\* what the production rule yields for the call's host
ProductionCandidate ==
    IF call.about.segments >= 3 /\ ~call.about.excluded
    THEN call.about.first
    ELSE NULL

\* what the host the call is about yields
CandidateOfHost ==
    IF call.about.dev THEN DevelopmentCandidate ELSE ProductionCandidate

HostHeader      == call.arg.headers.host
ForwardedHeader == call.arg.headers.xfh

\* C25: the host header is used when present, x-forwarded-host only when
\* the host header is absent; with neither, extractSubdomain returns nothing
\* and resolveTenant answers INVALID_SUBDOMAIN.
C25_HostHeaderFirst ==
    /\ (Returned("extractSubdomain") /\ HostHeader # NULL) =>
          /\ HostHeader = call.about.text
          /\ call.result = CandidateOfHost
    /\ (Returned("extractSubdomain") /\ HostHeader = NULL /\ ForwardedHeader # NULL) =>
          /\ ForwardedHeader = call.about.text
          /\ call.result = CandidateOfHost
    /\ (Returned("extractSubdomain") /\ HostHeader = NULL /\ ForwardedHeader = NULL) =>
          call.result = NULL
    /\ (Returned("resolveTenant") /\ HostHeader = NULL /\ ForwardedHeader = NULL) =>
          RejectedWithoutRemoteCall(call.result)

\* a host header was used although another host was forwarded
C25_Witness ==
    /\ Returned("extractSubdomain")
    /\ HostHeader = <<"g","o",".","e","x",".","i","o">>
    /\ ForwardedHeader = DECOY_HOST
    /\ call.result = GO

\* a returned call of fn on a hostname without localhost and 127.0.0.1 that
\* has fewer than 3 segments
CalledShortHost(fn) ==
    /\ Returned(fn)
    /\ call.about.text # NULL
    /\ ~call.about.dev
    /\ call.about.segments < 3

\* C26: for every hostname without localhost and 127.0.0.1 that has fewer
\* than 3 dot-separated segments once the port is removed, extractSubdomain
\* returns nothing and resolveTenant answers INVALID_SUBDOMAIN.
C26_FewerThanThreeSegments ==
    /\ CalledShortHost("extractSubdomain") => call.result = NULL
    /\ CalledShortHost("resolveTenant") =>
          /\ call.result.pc = "done"
          /\ ErrorCode(call.result) = "INVALID_SUBDOMAIN"
          /\ call.result.ret.tenant = NONE

\* resolveTenant has rejected acme.io:80, a host of 2 segments
C26_Witness ==
    /\ CalledShortHost("resolveTenant")
    /\ call.about.text = <<"a","c","m","e",".","i","o",":","8","0">>
    /\ call.about.segments = 2
    /\ ErrorCode(call.result) = "INVALID_SUBDOMAIN"

\* a step of an invocation of resolveTenant, or of the clock
ResolverOrClockStep == inv' # inv \/ now' # now

\* C27: a lookup never removes a cache entry: the set of cached keys shrinks
\* only in a step of clearTenantCache or clearAllTenantCache, so an entry
\* older than TTL stays in the map and in the statistics through every step
\* of an invocation and of the clock.
C27_LookupsNeverEvict ==
    [][ ResolverOrClockStep =>
          /\ DOMAIN tenantCache \subseteq DOMAIN tenantCache'
          /\ getTenantCacheStats(tenantCache).keys
                \subseteq getTenantCacheStats(tenantCache').keys
          /\ getTenantCacheStats(tenantCache').size
                >= getTenantCacheStats(tenantCache).size ]_vars

\* a lookup that found an entry older than TTL has ended without a tenant,
\* and the entry, still older than TTL, is in the map and in the statistics
C27_Witness ==
    \E r \in Req :
        /\ Done(r) /\ inv[r].cacheUse = "stale"
        /\ inv[r].lookupCalls = 1
        /\ inv[r].ret.tenant = NONE
        /\ CacheKey(inv[r].subdomain) \in getTenantCacheStats(tenantCache).keys
        /\ now - tenantCache[CacheKey(inv[r].subdomain)].timestamp > CACHE_TTL

\* ------------------------------------------------------------------------
\* resolveTenant as Express-style middleware: every invocation is given a
\* next callback and leaves its result on the request object
\* ------------------------------------------------------------------------

NextMiddleware ==
    \/ (\E r \in Req : BeginMiddleware(r))  /\ UNCHANGED <<handlerVars, historyVars, call, ui>>
    \/ (\E r \in Req : LookupAnswer(r))     /\ UNCHANGED <<handlerVars, historyVars, call, ui>>
    \/ (\E r \in Req : ContextAnswer(r))    /\ UNCHANGED <<handlerVars, historyVars, call, ui>>
    \/ (\E r \in Req : Return(r))           /\ UNCHANGED <<handlerVars, historyVars, call, ui>>
    \/ clearAllTenantCache                  /\ UNCHANGED <<handlerVars, historyVars, call, ui>>

SpecMiddleware == Init /\ [][NextMiddleware]_vars

\* an invocation with a next callback has completed in slot r
DoneMiddleware(r) == Done(r) /\ inv[r].useNext

\* C28: after resolveTenant(req, res, next) completes, req.tenant and
\* req.tenantError are never both non-null.
C28_NeverBothOnRequest ==
    \A r \in Req :
        DoneMiddleware(r) => ~(inv[r].reqTenant # NONE /\ inv[r].reqTenantError # NONE)

\* C29: with a next callback, every invocation of resolveTenant calls next
\* exactly once, whichever way the resolution ends.
C29_NextCalledExactlyOnce ==
    \A r \in Req : DoneMiddleware(r) => inv[r].nextCalls = 1

\* the handler has answered the request of slot r, whose resolution ended
\* with the error code
AnsweredError(r, code) ==
    /\ api[r].pc = "responded"
    /\ api[r].method # "OPTIONS"
    /\ Done(r)
    /\ inv[r].ret.error # NONE
    /\ inv[r].ret.error.code = code

\* C30: the phrases handler answers INVALID_SUBDOMAIN with 400,
\* INVALID_SUBDOMAIN_FORMAT with 400, TENANT_NOT_FOUND with 404 and
\* TENANT_RESOLUTION_ERROR with 500, whatever the method, and answers 405
\* only to a method other than GET and OPTIONS whose tenant has been resolved.
C30_ErrorStatusAndMethodNotAllowed ==
    \A r \in Req :
        /\ AnsweredError(r, "INVALID_SUBDOMAIN")        => api[r].status = 400
        /\ AnsweredError(r, "INVALID_SUBDOMAIN_FORMAT") => api[r].status = 400
        /\ AnsweredError(r, "TENANT_NOT_FOUND")         => api[r].status = 404
        /\ AnsweredError(r, "TENANT_RESOLUTION_ERROR")  => api[r].status = 500
        /\ (api[r].pc = "responded" /\ api[r].status = 405)
              => /\ api[r].method \notin {"GET", "OPTIONS"}
                 /\ Done(r)
                 /\ inv[r].ret.error = NONE
                 /\ inv[r].ret.tenant # NONE
                 /\ inv[r].ret.tenant.status = "active"
                 /\ inv[r].contextOut = "ok"

\* a POST for an unknown tenant has been answered 404 and a POST for an
\* active tenant 405
C30_Witness ==
    /\ AnsweredError("r1", "TENANT_NOT_FOUND")
    /\ api["r1"].method = "POST" /\ api["r1"].status = 404
    /\ api["r2"].pc = "responded" /\ api["r2"].method = "POST"
    /\ api["r2"].status = 405
    /\ inv["r2"].ret.tenant # NONE

\* the resolution of slot r handed the handler a tenant without an id
ResolvedWithoutId(r) ==
    /\ Done(r)
    /\ inv[r].ret.error = NONE
    /\ inv[r].ret.tenant # NONE
    /\ inv[r].ret.tenant.id = NULL

\* C31: the phrases query is run only for a request whose resolution returned
\* a tenant that has an id, and no error; an OPTIONS request is answered 200
\* with no resolution started and no rpc issued.
C31_QueryOnlyForResolvedTenant ==
    \A r \in Req :
        /\ api[r].pc = "query" =>
              /\ Done(r)
              /\ inv[r].ret.error = NONE
              /\ inv[r].ret.tenant # NONE
              /\ inv[r].ret.tenant.id \notin {NULL, <<>>}
        /\ (api[r].pc = "responded" /\ ResolvedWithoutId(r)) => api[r].status = 400
        /\ api[r].method = "OPTIONS" =>
              /\ api[r].pc = "responded" /\ api[r].status = 200
              /\ inv[r].pc = "idle"
              /\ inv[r].lookupCalls = 0 /\ inv[r].contextCalls = 0

\* the query of a resolved GET is running, while an OPTIONS request has been
\* answered 200 with no resolution started
C31_Witness ==
    /\ api["r1"].pc = "query" /\ api["r1"].method = "GET"
    /\ inv["r1"].ret.tenant.id = StoreId(inv["r1"].subdomain)
    /\ api["r2"].method = "OPTIONS" /\ api["r2"].status = 200
    /\ inv["r2"] = Idle

\* the step in which the set_tenant_context rpc of slot r is answered
ContextStep(r) == inv[r].pc = "setctx" /\ inv'[r].pc # "setctx"

\* C32: a set_tenant_context rpc that fails leaves the cache as it is, so the
\* active record its lookup stored stays cached; a resolution of an identifier
\* whose active record is cached and younger than TTL issues no lookup rpc and
\* issues a set_tenant_context rpc of its own for the cached id.
C32_ContextFailureKeepsCache ==
    [][ \A r \in Req :
          /\ (ContextStep(r) /\ inv'[r].contextOut \in {"error", "throw"})
                => tenantCache' = tenantCache
          /\ (/\ BeginStep(r)
              /\ Truthy(inv'[r].subdomain)
              /\ LET e == CacheGet(tenantCache, CacheKey(inv'[r].subdomain)) IN
                   e # NONE /\ e.data # NONE /\ now - e.timestamp < CACHE_TTL)
                => /\ inv'[r].lookupCalls = 0
                   /\ inv'[r].contextCalls = 1
                   /\ inv'[r].contextArg
                         = CacheGet(tenantCache, CacheKey(inv'[r].subdomain)).data.id ]_vars

\* the lookup of r1 stored an active record and its set_tenant_context failed;
\* r2 resolves the same identifier from that entry, with no lookup and with a
\* set_tenant_context rpc in flight
C32_Witness ==
    /\ Done("r1") /\ LookupActive(inv["r1"])
    /\ inv["r1"].contextOut \in {"error", "throw"}
    /\ inv["r2"].pc = "setctx" /\ inv["r2"].cacheUse = "fresh"
    /\ inv["r2"].subdomain = inv["r1"].subdomain
    /\ inv["r2"].lookupCalls = 0 /\ inv["r2"].contextCalls = 1
    /\ CacheGet(tenantCache, CacheKey(inv["r1"].subdomain))
          = [data |-> inv["r1"].tenant, timestamp |-> 0]
    /\ inv["r2"].tenant = inv["r1"].tenant
    /\ now > 0

\* ------------------------------------------------------------------------
\* getTenantConfig and the pagination arithmetic of handleGetPhrases
\*
\* JavaScript values are tagged: a number, NaN, a string, null, undefined or
\* a boolean, so that parseInt, ||, Math.max and Math.min convert as the
\* language does
\* ------------------------------------------------------------------------

Num(n)   == [t |-> "num", n |-> n]
Str(s)   == [t |-> "str", s |-> s]
Bool(b)  == [t |-> "bool", b |-> b]
NaN       == [t |-> "nan"]
JsNull      == [t |-> "null"]
JsUndefined == [t |-> "undefined"]

IsNum(x) == x.t = "num"

DigitValue(c) ==
    CASE c = "0" -> 0 [] c = "1" -> 1 [] c = "2" -> 2 [] c = "3" -> 3 [] c = "4" -> 4
      [] c = "5" -> 5 [] c = "6" -> 6 [] c = "7" -> 7 [] c = "8" -> 8 [] c = "9" -> 9

RECURSIVE SkipSpaces(_)
SkipSpaces(s) == IF s # <<>> /\ Head(s) = " " THEN SkipSpaces(Tail(s)) ELSE s

\* the leading run of decimal digits of s
RECURSIVE DigitPrefix(_)
DigitPrefix(s) ==
    IF s # <<>> /\ Head(s) \in Range(DigitChars) THEN <<Head(s)>> \o DigitPrefix(Tail(s)) ELSE <<>>

RECURSIVE DigitsValue(_)
DigitsValue(d) ==
    IF d = <<>> THEN 0 ELSE 10 * DigitsValue(SubSeq(d, 1, Len(d) - 1)) + DigitValue(d[Len(d)])

\* parseInt of a string: leading white space, a sign, then the longest run of
\* digits; NaN when there is no digit there
ParseIntStr(s) ==
    LET s1   == SkipSpaces(s)
        neg  == s1 # <<>> /\ Head(s1) = "-"
        s2   == IF s1 # <<>> /\ Head(s1) \in {"-", "+"} THEN Tail(s1) ELSE s1
        d    == DigitPrefix(s2)
    IN  IF d = <<>> THEN NaN
        ELSE Num(IF neg THEN 0 - DigitsValue(d) ELSE DigitsValue(d))

\* parseInt(x): the argument is converted to a string first
parseInt(x) ==
    CASE x.t = "num" -> x
      [] x.t = "str" -> ParseIntStr(x.s)
      [] OTHER       -> NaN

\* Number(x), the conversion Math.max and Math.min apply to an argument
ToNumber(x) ==
    CASE x.t = "num"  -> x
      [] x.t = "null" -> Num(0)
      [] x.t = "bool" -> Num(IF x.b THEN 1 ELSE 0)
      [] x.t = "str"  ->
            LET s1 == SkipSpaces(x.s)
                s2 == IF s1 # <<>> /\ Head(s1) \in {"-", "+"} THEN Tail(s1) ELSE s1
            IN  IF s1 = <<>> THEN Num(0)
                ELSE IF s2 # <<>> /\ DigitPrefix(s2) = s2 THEN ParseIntStr(x.s)
                ELSE NaN
      [] OTHER        -> NaN

\* a || b for a number a
OrNum(a, b) == IF a.t = "nan" \/ (a.t = "num" /\ a.n = 0) THEN b ELSE a

MathMax(a, b) ==
    LET x == ToNumber(a)  y == ToNumber(b) IN
    IF x.t = "nan" \/ y.t = "nan" THEN NaN ELSE Num(IF x.n >= y.n THEN x.n ELSE y.n)

MathMin(a, b) ==
    LET x == ToNumber(a)  y == ToNumber(b) IN
    IF x.t = "nan" \/ y.t = "nan" THEN NaN ELSE Num(IF x.n <= y.n THEN x.n ELSE y.n)

\* (a - 1) * b
PredTimes(a, b) == IF a.t = "nan" \/ b.t = "nan" THEN NaN ELSE Num((a.n - 1) * b.n)

\* Object.keys(obj)
Keys(obj) == IF obj = EmptySettings THEN {} ELSE DOMAIN obj

\* obj.key, undefined when obj has no such property
Prop(obj, key) == IF key \in Keys(obj) THEN obj[key] ELSE JsUndefined

\* a parameter default of a destructuring: v = d
Default(v, d) == IF v = JsUndefined THEN d ELSE v

defaultConfig ==
    [ maxPhrasesPerRequest |-> Num(50),
      cacheTtl             |-> Num(300),
      enablePagination     |-> Bool(TRUE),
      enableSorting        |-> Bool(TRUE),
      defaultSortOrder     |-> Str(<<"c","r","e","a","t","e","d","_","a","t">>) ]

\* a merge in which the defaults win
getTenantConfig_DefaultsWin(tenant, dflt) ==
    IF tenant = NONE \/ tenant.settings = NONE
    THEN dflt
    ELSE [k \in Keys(dflt) \cup Keys(tenant.settings) |->
            IF k \in Keys(dflt) THEN dflt[k] ELSE tenant.settings[k]]

\* getTenantConfig(tenant, defaultConfig): {...defaultConfig, ...tenant.settings}
getTenantConfig(tenant, dflt) ==
    IF tenant = NONE \/ tenant.settings = NONE
    THEN dflt
    ELSE [k \in Keys(dflt) \cup Keys(tenant.settings) |->
            IF k \in Keys(tenant.settings) THEN tenant.settings[k] ELSE dflt[k]]

\* pageNum, limitNum and offset as handleGetPhrases computes them from
\* req.query and config
Pagination(query, config) ==
    LET page     == Default(Prop(query, "page"), Num(1))
        limit    == Default(Prop(query, "limit"), Prop(config, "maxPhrasesPerRequest"))
        pageNum  == MathMax(Num(1), OrNum(parseInt(page), Num(1)))
        limitNum == MathMin(Prop(config, "maxPhrasesPerRequest"),
                            MathMax(Num(1), OrNum(parseInt(limit), Num(10))))
    IN  [pageNum |-> pageNum, limitNum |-> limitNum,
         offset |-> PredTimes(pageNum, limitNum)]

\* the values of ?page= as the query string carries them
PageValues ==
    { JsUndefined, Str(<<"1">>), Str(<<"3">>), Str(<<"0">>), Str(<<"-","2">>),
      Str(<<"a","b","c">>), Str(<<>>), Str(<<"2","x">>), Str(<<" ","4">>) }

\* the values of ?limit=
LimitValues ==
    { JsUndefined, Str(<<"1","0">>), Str(<<"5">>), Str(<<"0">>), Str(<<"-","1">>),
      Str(<<"2","0","0">>), Str(<<"a","b","c">>) }

\* tenant_settings as the store may hold them, each with the
\* maxPhrasesPerRequest the merged configuration then carries
SettingsValues ==
    { [settings |-> NONE,          max |-> Num(50)],
      [settings |-> EmptySettings, max |-> Num(50)],
      [settings |-> [theme |-> Str(<<"d","a","r","k">>)], max |-> Num(50)],
      [settings |-> [maxPhrasesPerRequest |-> Num(100)], max |-> Num(100)],
      [settings |-> [maxPhrasesPerRequest |-> Num(5), cacheTtl |-> Num(60)],
                                   max |-> Num(5)],
      [settings |-> [maxPhrasesPerRequest |-> Str(<<"2","0">>)], max |-> Str(<<"2","0">>)],
      [settings |-> [maxPhrasesPerRequest |-> Num(0)],  max |-> Num(0)],
      [settings |-> [maxPhrasesPerRequest |-> Num(0 - 5)], max |-> Num(0 - 5)],
      [settings |-> [maxPhrasesPerRequest |-> JsNull],  max |-> JsNull] }

\* a resolved tenant with the settings s
TenantWith(s) == [id |-> StoreId(ACME), subdomain |-> ACME, name |-> "Tenant",
                  status |-> "active", settings |-> s]

PaginationCalls ==
    { [fn |-> "handleGetPhrases",
       arg |-> [query |-> [page |-> p, limit |-> l], tenant |-> TenantWith(sv.settings)],
       about |-> sv, result |-> NONE, returned |-> FALSE] :
         p \in PageValues, l \in LimitValues, sv \in SettingsValues }

ConfigCalls ==
    { [fn |-> "getTenantConfig", arg |-> [tenant |-> t, dflt |-> d],
       about |-> NONE, result |-> NONE, returned |-> FALSE] :
         t \in {NONE} \cup {TenantWith(sv.settings) : sv \in SettingsValues},
         d \in {defaultConfig, EmptySettings} }

InitConfig ==
    /\ tenantCache = [k \in {} |-> NONE]
    /\ now = 0
    /\ inv = [r \in Req |-> Idle]
    /\ dbContext = NULL
    /\ api = [r \in Req |-> ApiIdle]
    /\ overtaken = {}
    /\ tainted = {}
    /\ ui = UiLoaded
    /\ call \in PaginationCalls \cup ConfigCalls

\* handler merges the configuration and handleGetPhrases parses page and limit
CallHandleGetPhrases ==
    /\ call.fn = "handleGetPhrases"
    /\ ~call.returned
    /\ call' = [call EXCEPT
                  !.result = Pagination(call.arg.query,
                                        getTenantConfig(call.arg.tenant, defaultConfig)),
                  !.returned = TRUE]
    /\ UNCHANGED <<tenantCache, now, inv, handlerVars, historyVars, ui>>

\* getTenantConfig(tenant, defaultConfig) is called and returns
CallGetTenantConfig ==
    /\ call.fn = "getTenantConfig"
    /\ ~call.returned
    /\ call' = [call EXCEPT !.result = getTenantConfig(call.arg.tenant, call.arg.dflt),
                            !.returned = TRUE]
    /\ UNCHANGED <<tenantCache, now, inv, handlerVars, historyVars, ui>>

NextConfig ==
    \/ CallHandleGetPhrases
    \/ CallGetTenantConfig

SpecConfig == InitConfig /\ [][NextConfig]_vars

\* x is a number and low <= x
AtLeast(x, low) == IsNum(x) /\ x.n >= low

\* C33: for every page and limit query value, pageNum is at least 1, limitNum
\* is at least 1 and at most config.maxPhrasesPerRequest, and offset is not
\* negative, config being the defaults merged with the tenant's settings.
C33_PaginationBounds ==
    Returned("handleGetPhrases") =>
        /\ AtLeast(call.result.pageNum, 1)
        /\ AtLeast(call.result.limitNum, 1)
        /\ IsNum(ToNumber(call.about.max))
        /\ call.result.limitNum.n <= ToNumber(call.about.max).n
        /\ AtLeast(call.result.offset, 0)

\* the bounds hold whenever the merged maxPhrasesPerRequest is a number of at
\* least 1
PaginationBoundsUnderPositiveMax ==
    (Returned("handleGetPhrases") /\ AtLeast(call.about.max, 1)) =>
        /\ AtLeast(call.result.pageNum, 1)
        /\ AtLeast(call.result.limitNum, 1)
        /\ call.result.limitNum.n <= call.about.max.n
        /\ call.result.offset = Num((call.result.pageNum.n - 1) * call.result.limitNum.n)
        /\ AtLeast(call.result.offset, 0)

\* a returned call of getTenantConfig whose tenant has a settings object
MergedConfig ==
    /\ Returned("getTenantConfig")
    /\ call.arg.tenant # NONE
    /\ call.arg.tenant.settings # NONE

\* C34: getTenantConfig returns defaultConfig when the tenant or its settings
\* are missing; otherwise every key of tenant.settings carries the tenant's
\* value, every key present only in defaultConfig carries the default, and
\* there is no other key.
C34_SettingsOverrideDefaults ==
    /\ (Returned("getTenantConfig") /\ ~MergedConfig) => call.result = call.arg.dflt
    /\ MergedConfig =>
          /\ Keys(call.result) = Keys(call.arg.dflt) \cup Keys(call.arg.tenant.settings)
          /\ \A k \in Keys(call.arg.tenant.settings) :
                call.result[k] = call.arg.tenant.settings[k]
          /\ \A k \in Keys(call.arg.dflt) \ Keys(call.arg.tenant.settings) :
                call.result[k] = call.arg.dflt[k]

\* the merge of the defaults with settings that override maxPhrasesPerRequest
\* and cacheTtl: both carry the tenant's values, the other three the defaults
C34_Witness ==
    /\ MergedConfig
    /\ call.arg.dflt = defaultConfig
    /\ Keys(call.arg.tenant.settings) = {"maxPhrasesPerRequest", "cacheTtl"}
    /\ call.result.maxPhrasesPerRequest = Num(5)
    /\ call.result.cacheTtl = Num(60)
    /\ call.result.enablePagination = Bool(TRUE)

\* ------------------------------------------------------------------------
\* Requests whose hosts spell one identifier in different letter case
\* ------------------------------------------------------------------------

\* the hosts, each with the identifier as it is spelled in it
CaseHosts ==
    { [host |-> ACME_HOST, spelled |-> <<"a","c","m","e">>],
      [host |-> <<"A","C","M","E",".","e","x",".","i","o">>, spelled |-> <<"A","C","M","E">>],
      [host |-> <<"A","c","m","e",".","e","x",".","i","o">>, spelled |-> <<"A","c","m","e">>] }

\* a request arrives with one of the spellings and resolveTenant(req, res) is
\* called for it
BeginCase(r) ==
    /\ inv[r].pc = "idle"
    /\ \E h \in CaseHosts :
         inv' = [inv EXCEPT ![r] =
                    ResolveStart([Idle EXCEPT
                                    !.req = [headers |-> [host |-> h.host, xfh |-> NULL],
                                             query |-> NONE]],
                                 tenantCache, now, "ok", "ok")]
    /\ UNCHANGED <<tenantCache, now>>

NextCase ==
    \/ (\E r \in Req : BeginCase(r))      /\ UNCHANGED <<handlerVars, historyVars, call, ui>>
    \/ (\E r \in Req : LookupAnswer(r))   /\ UNCHANGED <<handlerVars, historyVars, call, ui>>
    \/ (\E r \in Req : ContextAnswer(r))  /\ UNCHANGED <<handlerVars, historyVars, call, ui>>
    \/ (\E r \in Req : Return(r))         /\ UNCHANGED <<handlerVars, historyVars, call, ui>>
    \/ clearAllTenantCache                /\ UNCHANGED <<handlerVars, historyVars, call, ui>>

SpecCase == Init /\ [][NextCase]_vars

\* the identifier as the host of the request of an invocation spells it
Spelled(st) == (CHOOSE h \in CaseHosts : h.host = st.req.headers.host).spelled

\* the cache key written with the letters of the spelling s
KeyAsSpelled(s) == <<"t","e","n","a","n","t",":">> \o s

\* C35: the cache is keyed by the identifier as the host spells it: an answer
\* for one spelling is stored under that spelling's key only, spellings that
\* differ in letter case have entries of their own, and a resolution is served
\* from the cache only when the key of its own spelling is there.
C35_CacheKeyedCaseSensitively ==
    [][ \A r \in Req :
          /\ (LookupStep(r) /\ (LookupActive(inv'[r]) \/ LookupEmpty(inv'[r])))
                => /\ DOMAIN tenantCache'
                         = (DOMAIN tenantCache) \cup {KeyAsSpelled(Spelled(inv[r]))}
                   /\ \A k \in (DOMAIN tenantCache) \ {KeyAsSpelled(Spelled(inv[r]))} :
                         tenantCache'[k] = tenantCache[k]
          /\ BeginStep(r)
                => /\ inv'[r].subdomain = Spelled(inv'[r])
                   /\ (KeyAsSpelled(Spelled(inv'[r])) \notin DOMAIN tenantCache)
                         => /\ inv'[r].pc = "lookup"
                            /\ inv'[r].lookupCalls = 1 ]_vars

\* acme and ACME each have an entry, and a resolution of Acme has found
\* neither of them and awaits its own lookup
C35_Witness ==
    /\ DOMAIN tenantCache = {KeyAsSpelled(<<"a","c","m","e">>), KeyAsSpelled(<<"A","C","M","E">>)}
    /\ inv["r1"].pc = "lookup"
    /\ inv["r1"].subdomain = <<"A","c","m","e">>
    /\ inv["r1"].cacheUse = "miss"

\* ------------------------------------------------------------------------
\* The page of the frontend: buttons, keyboard shortcuts, window focus and
\* the requests of fetchTenantPhrases and testTenantIsolation
\*
\* Event handlers run one at a time; a handler that awaits makeApiRequest
\* resumes in the step in which its request is answered.
\* ------------------------------------------------------------------------

\* the requests that may await their answer at once
MaxInFlight == 4

\* every way makeApiRequest can end: a response with data and tenant, one with
\* data and no tenant, one of another shape, or an exception
ApiOutcomes == {"phrases", "noTenant", "malformed", "failed"}

disableButtons(u) ==
    [u EXCEPT !.fetchDisabled = TRUE, !.refreshDisabled = TRUE, !.testDisabled = TRUE]

enableButtons(u) ==
    [u EXCEPT !.fetchDisabled = FALSE, !.refreshDisabled = FALSE, !.testDisabled = FALSE]

\* hideAllDisplays, show the loading panel, disableButtons
showLoading(u) == disableButtons([u EXCEPT !.panel = "loading"])

\* hideAllDisplays and empty the panels
clearDisplay(u) == [u EXCEPT !.panel = "none"]

\* fetchTenantPhrases or testTenantIsolation from its call to its await
StartRequest(u, kind) ==
    [showLoading(u) EXCEPT !.status = "loading", !.inFlight = Append(@, kind)]

\* the sequence s without its i-th element
RemoveAt(s, i) == SubSeq(s, 1, i - 1) \o SubSeq(s, i + 1, Len(s))

\* fetchTenantPhrases from the answer of its request to its end
FetchAfterAnswer(u, out) ==
    enableButtons(
        CASE out = "phrases"  -> [u EXCEPT !.currentTenant = TRUE, !.panel = "phrases",
                                          !.status = "success"]
          [] out = "noTenant" -> [u EXCEPT !.panel = "phrases", !.status = "success"]
          [] OTHER            -> [u EXCEPT !.panel = "error", !.status = "error"])

\* testTenantIsolation from the answer of its request to its end
TestAfterAnswer(u, out) ==
    enableButtons(
        IF out = "phrases"
        THEN [u EXCEPT !.panel = "success", !.status = "success"]
        ELSE [u EXCEPT !.panel = "error", !.status = "error"])

\* what no handler of the page touches
backendVars == <<tenantCache, now, inv, handlerVars, historyVars, call>>

\* a click on the fetch button, which a disabled button does not deliver
handleFetchClick ==
    /\ ~ui.fetchDisabled
    /\ Len(ui.inFlight) < MaxInFlight
    /\ ui' = StartRequest(ui, "fetch")
    /\ UNCHANGED backendVars

handleRefreshClick ==
    /\ ~ui.refreshDisabled
    /\ Len(ui.inFlight) < MaxInFlight
    /\ ui' = StartRequest(clearDisplay(ui), "fetch")
    /\ UNCHANGED backendVars

handleTestIsolationClick ==
    /\ ~ui.testDisabled
    /\ Len(ui.inFlight) < MaxInFlight
    /\ ui' = StartRequest(ui, "test")
    /\ UNCHANGED backendVars

\* a keydown of f, r or t without modifier, whatever the state of the buttons
handleKeyboardShortcuts ==
    /\ Len(ui.inFlight) < MaxInFlight
    /\ \E key \in {"f", "r", "t"} :
         ui' = CASE key = "f" -> StartRequest(ui, "fetch")
                 [] key = "r" -> StartRequest(clearDisplay(ui), "fetch")
                 [] key = "t" -> StartRequest(ui, "test")
    /\ UNCHANGED backendVars

\* the window regains focus
WindowFocus ==
    /\ ui.currentTenant
    /\ Len(ui.inFlight) < MaxInFlight
    /\ ui' = StartRequest(ui, "fetch")
    /\ UNCHANGED backendVars

\* one of the pending requests is answered and its handler runs to its end
ApiAnswer ==
    /\ \E i \in 1..Len(ui.inFlight), out \in ApiOutcomes :
         LET u == [ui EXCEPT !.inFlight = RemoveAt(@, i)] IN
         ui' = IF ui.inFlight[i] = "fetch" THEN FetchAfterAnswer(u, out)
               ELSE TestAfterAnswer(u, out)
    /\ UNCHANGED backendVars

NextFrontend ==
    \/ handleFetchClick
    \/ handleRefreshClick
    \/ handleTestIsolationClick
    \/ handleKeyboardShortcuts
    \/ WindowFocus
    \/ ApiAnswer

SpecFrontend == Init /\ [][NextFrontend]_vars

\* C36: whenever a request of fetchTenantPhrases or testTenantIsolation is in
\* flight, the fetch, refresh and test buttons are disabled.
C36_ButtonsDisabledWhileInFlight ==
    Len(ui.inFlight) > 0 =>
        ui.fetchDisabled /\ ui.refreshDisabled /\ ui.testDisabled

\* ------------------------------------------------------------------------
\* The tenant the page detects from window.location, next to the candidate
\* extractSubdomain takes from a request to the same hostname
\* ------------------------------------------------------------------------

ANYADDR == <<"0",".","0",".","0",".","0">>

\* the exclusion list of extractProductionSubdomain
FrontendExcludedSubdomains ==
    { <<"w","w","w">>, <<"a","p","i">>, <<"a","d","m","i","n">>, <<"a","p","p">>,
      <<"m","a","i","l">>, <<"c","d","n">> }

isLocalDevelopment(hostname) ==
    \/ includes(hostname, LOCALHOST)
    \/ includes(hostname, LOOPBACK)
    \/ includes(hostname, ANYADDR)

\* s.split(needle)[0]: the text before the first occurrence of needle
BeforeFirst(s, needle) ==
    LET at == { i \in 1..(Len(s) - Len(needle) + 1) :
                  SubSeq(s, i, i + Len(needle) - 1) = needle }
        i0 == CHOOSE i \in at : \A j \in at : i <= j
    IN  SubSeq(s, 1, i0 - 1)

extractDevelopmentSubdomain(hostname) ==
    IF includes(hostname, <<"-">> \o LOCALHOST)
    THEN OrElse(BeforeFirst(hostname, <<"-">> \o LOCALHOST), NULL)
    ELSE IF includes(hostname, <<".">> \o LOCALHOST)
    THEN OrElse(BeforeFirst(hostname, <<".">> \o LOCALHOST), NULL)
    ELSE NULL

extractProductionSubdomain(hostname) ==
    LET parts == split(hostname, ".") IN
    IF Len(parts) >= 3 /\ toLowerCase(parts[1]) \notin FrontendExcludedSubdomains
    THEN parts[1]
    ELSE NULL

\* detectedSubdomain of detectCurrentTenant, NULL when it shows the tenant
\* error; tenantParam is urlParams.get('tenant')
detectCurrentTenant(hostname, tenantParam) ==
    LET detectedSubdomain ==
            IF isLocalDevelopment(hostname)
            THEN OrElse(tenantParam, OrElse(extractDevelopmentSubdomain(hostname), DEMO))
            ELSE extractProductionSubdomain(hostname)
    IN  IF ~Truthy(detectedSubdomain) THEN NULL ELSE detectedSubdomain

\* window.location.hostname: the hostnames of the calls without port, and
\* 0.0.0.0
PageHostnames ==
    { f.text \o x.text : f \in FirstSegments, x \in HostSuffixes }
        \cup { h.text : h \in DevHostnames }
        \cup { ANYADDR, <<"c","d","n",".","e","x",".","i","o">> }

\* urlParams.get('tenant'): absent, a tenant, empty
TenantParams == { NULL, GO, <<>> }

\* the request the backend receives for the same hostname and parameter
RequestFor(hostname, tenantParam) ==
    [headers |-> [host |-> hostname, xfh |-> NULL],
     query   |-> IF tenantParam = NULL THEN NONE ELSE [tenant |-> tenantParam]]

InitDetect ==
    /\ tenantCache = [k \in {} |-> NONE]
    /\ now = 0
    /\ inv = [r \in Req |-> Idle]
    /\ dbContext = NULL
    /\ api = [r \in Req |-> ApiIdle]
    /\ overtaken = {}
    /\ tainted = {}
    /\ ui = UiLoaded
    /\ call \in { [fn |-> "detectCurrentTenant",
                   arg |-> [hostname |-> h, tenant |-> p],
                   about |-> NONE, result |-> NONE, returned |-> FALSE] :
                     h \in PageHostnames, p \in TenantParams }

\* the page detects its tenant and the backend extracts the candidate of the
\* request for the same hostname and parameter
CallDetectCurrentTenant ==
    /\ call.fn = "detectCurrentTenant"
    /\ ~call.returned
    /\ call' = [call EXCEPT
                  !.result = [frontend |-> detectCurrentTenant(call.arg.hostname,
                                                               call.arg.tenant),
                              backend  |-> extractSubdomain(RequestFor(call.arg.hostname,
                                                                       call.arg.tenant))],
                  !.returned = TRUE]
    /\ UNCHANGED <<tenantCache, now, inv, handlerVars, historyVars, ui>>

NextDetect == CallDetectCurrentTenant

SpecDetect == InitDetect /\ [][NextDetect]_vars

\* C37: for every hostname and tenant query parameter, the subdomain the page
\* detects is the candidate the backend extracts, and the page detects none
\* exactly when the backend extracts none.
C37_FrontendAgreesWithBackend ==
    Returned("detectCurrentTenant") =>
        /\ call.result.frontend = call.result.backend
        /\ (call.result.frontend = NULL) <=> (call.result.backend = NULL)

\* on hostnames without localhost, 127.0.0.1 and 0.0.0.0 whose first segment
\* is neither mail nor cdn, in lower or upper case, the two agree
AgreementOnPlainProductionHosts ==
    (/\ Returned("detectCurrentTenant")
     /\ ~isLocalDevelopment(call.arg.hostname)
     /\ toLowerCase(split(call.arg.hostname, ".")[1])
            \notin {<<"m","a","i","l">>, <<"c","d","n">>})
        => call.result.frontend = call.result.backend

====
